---- MODULE Spec2Model ----
(***************************************************************************)
(* A model of systemeval: the unified EvaluationResult (sessions, metrics, *)
(* cascading verdict, content hash) of systemeval/core/evaluation.py and   *)
(* the command executors of systemeval/environments/executor.py.           *)
(*                                                                         *)
(* The specifications share the module, each over its own variables:       *)
(*   Spec      the life of one EvaluationResult: add_session, metric       *)
(*             appends on its sessions, finalize;                          *)
(*   SpecHash  two EvaluationResults built side by side and finalized,     *)
(*             for the statements about run_hash;                          *)
(*   SpecExec  one call of TestExecutor.execute / DockerExecutor.execute;  *)
(*   SpecParse the output of a test command handed to parse_test_results;  *)
(*   SpecEnv   one DockerComposeEnvironment or BrowserEnvironment, driven  *)
(*             by its caller or by the CLI's _run_with_environment;        *)
(*   SpecConfig  an environments mapping written and handed to             *)
(*             SystemEvalConfig;                                           *)
(*   SpecRetry one call of a retry wrapper of systemeval/utils/retry.py;   *)
(*   SpecSurfer  one call of SurferAdapter.execute();                      *)
(*   SpecResult  one TestResult, its verdict and its to_evaluation();      *)
(*   SpecDown  teardown() of a DockerComposeEnvironment, interrupted by    *)
(*             the signal handler _cleanup;                                *)
(*   SpecProvider  the calls of get_status() and download_artifacts() of   *)
(*             a DebuggAIProvider for one run.                             *)
(***************************************************************************)
EXTENDS Integers, Sequences, FiniteSets, TLC

VARIABLES
    ev,              \* Spec: the EvaluationResult under construction
    now,             \* Spec: time.time() at the latest finalize() call
    raised,          \* Spec: exception raised by the latest call, "none" if
                     \*   it returned
    ha,              \* SpecHash: first EvaluationResult
    hb,              \* SpecHash: second EvaluationResult
    pc,              \* SpecExec: where the execute() call stands
    call,            \* SpecExec: the executor and the arguments of the call
    log,             \* SpecExec: the single-command executions made so far
    output_buffer,   \* SpecExec: TestExecutor._output_buffer
    result,          \* SpecExec: the ExecutionResult that execute() returned
    output,          \* SpecParse: the text the test command has written
    emitted,         \* SpecParse: what that text is made of so far
    parsed,          \* SpecParse: what parse_test_results(output, code) gave
    process,         \* SpecParse: the verdict that the test command has
                     \*   shown and the status that its process exited with
    env,             \* SpecEnv: the Environment object and what it started
    last,            \* SpecEnv: the latest method call on env: what it
                     \*   returned and the calls it made in turn
    hist,            \* SpecEnv: what has happened on env so far: wait_ready()
                     \*   has returned true (ready), the number, up to two, of
                     \*   teardown() calls without keep_running since the
                     \*   latest setup() (torn), the number of calls (n)
    cli,             \* SpecEnv: who drives env, and where the CLI's
                     \*   _run_with_environment stands
    raw,             \* SpecConfig: the environments mapping given to
                     \*   SystemEvalConfig
    sysconf,         \* SpecConfig: what SystemEvalConfig(environments=raw)
                     \*   gave, once it has been constructed
    rcall,           \* SpecRetry: the retry wrapper called and its
                     \*   RetryConfig
    rrun,            \* SpecRetry: where the wrapper's loop stands, and how
                     \*   the wrapper ended
    rtrace,          \* SpecRetry: the calls of the wrapped function and the
                     \*   sleeps of the wrapper, in their order
    surfer,          \* SpecSurfer: the SurferAdapter and the arguments of
                     \*   execute()
    srun,            \* SpecSurfer: where execute() stands: the time since
                     \*   polling began, the polls made, and what execute()
                     \*   returned or raised
    tres,            \* SpecResult: a TestResult, as constructed
    tverdict,        \* SpecResult: its verdict by each of the two
                     \*   TestResult classes
    teval,           \* SpecResult: the EvaluationResult that
                     \*   to_evaluation() built from it
    dn,              \* SpecDown: a DockerComposeEnvironment whose setup() has returned,
                     \*   and the docker down invocations since then
    tk,              \* SpecDown: where teardown() stands, the _cleanup handlers that
                     \*   interrupt it, and the signals delivered
    prun,            \* SpecProvider: the DebuggAIRun that the provider tracks
    pcall            \* SpecProvider: the last call of get_status() or
                     \*   download_artifacts() and what get_status() has returned so far

evalVars == <<ev, now, raised>>
hashVars == <<ha, hb>>
execVars == <<pc, call, log, output_buffer, result>>
parseVars == <<output, emitted, parsed, process>>
envVars == <<env, last, hist, cli>>
confVars == <<raw, sysconf>>
retryVars == <<rcall, rrun, rtrace>>
surferVars == <<surfer, srun>>
resultVars == <<tres, tverdict, teval>>
downVars == <<dn, tk>>
providerVars == <<prun, pcall>>
vars == <<evalVars, hashVars, execVars, parseVars, envVars, confVars, retryVars, surferVars, resultVars, downVars, providerVars>>

\* the variables that a specification leaves alone
notEval == <<hashVars, execVars, parseVars, envVars, confVars, retryVars, surferVars, resultVars, downVars, providerVars>>
notHash == <<evalVars, execVars, parseVars, envVars, confVars, retryVars, surferVars, resultVars, downVars, providerVars>>
notExec == <<evalVars, hashVars, parseVars, envVars, confVars, retryVars, surferVars, resultVars, downVars, providerVars>>
notParse == <<evalVars, hashVars, execVars, envVars, confVars, retryVars, surferVars, resultVars, downVars, providerVars>>
notEnv == <<evalVars, hashVars, execVars, parseVars, confVars, retryVars, surferVars, resultVars, downVars, providerVars>>
notConf == <<evalVars, hashVars, execVars, parseVars, envVars, retryVars, surferVars, resultVars, downVars, providerVars>>
notRetry == <<evalVars, hashVars, execVars, parseVars, envVars, confVars, surferVars, resultVars, downVars, providerVars>>
notSurfer == <<evalVars, hashVars, execVars, parseVars, envVars, confVars, retryVars, resultVars, downVars, providerVars>>
notResult == <<evalVars, hashVars, execVars, parseVars, envVars, confVars, retryVars, surferVars, downVars, providerVars>>
notDown == <<evalVars, hashVars, execVars, parseVars, envVars, confVars, retryVars, surferVars, resultVars, providerVars>>
notProvider == <<evalVars, hashVars, execVars, parseVars, envVars, confVars, retryVars, surferVars, resultVars, downVars>>

(***************************************************************************)
(* Bounds of the model.                                                    *)
(***************************************************************************)
MaxSessions == 2
MaxMetrics == 2
MaxClock == 2
MaxHashSessions == 1
MaxHashMetrics == 1
MaxCommands == 3
MaxTime == 2
MaxNoise == 2
MaxCalls == 4
MaxWait == 2
TicksPerSecond == 2
MaxEnvs == 2
MaxDeps == 1
MaxAttempts == 3
MaxSurferTimeout == 3
MaxRequestTime == 1
MaxCount == 1
MaxSignals == 2
MaxTests == 1

(***************************************************************************)
(* Verdict (enum) and the values a metric can carry.  A value keeps its    *)
(* Python type, so that str() is a real conversion: str(1) and str("1")    *)
(* are both "1".                                                           *)
(***************************************************************************)
PASS == "PASS"
FAIL == "FAIL"
ERROR == "ERROR"
Verdict == {PASS, FAIL, ERROR}

None == "<None>"

IntVal(n) == [t |-> "int", n |-> n, s |-> ""]
StrVal(s) == [t |-> "str", n |-> 0, s |-> s]

Digit(d) == <<"0", "1", "2", "3", "4", "5", "6", "7", "8", "9">>[d + 1]

RECURSIVE IntToStr(_)
IntToStr(n) == IF n < 10 THEN Digit(n) ELSE IntToStr(n \div 10) \o Digit(n % 10)

\* str(m.value)
Stringify(v) == IF v.t = "int" THEN IntToStr(v.n) ELSE v.s

MetricNames == {"tests_passed"}
MetricValues == {IntVal(1), StrVal("1"), IntVal(2)}
SessionNames == {"unit", "e2e"}

\* MetricResult(name, value, expected, passed, message)
MetricResult(name, value, expected, passed, message) ==
    [name |-> name, value |-> value, expected |-> expected, passed |-> passed,
     message |-> message]

\* SessionResult(session_id, session_name, metrics, duration_seconds, stdout)
SessionResult(sid, name, metrics, dur, out) ==
    [session_id |-> sid, session_name |-> name, metrics |-> metrics,
     duration_seconds |-> dur, stdout |-> out]

\* Mutant of SessionResult.verdict: a majority vote instead of the cascade.
SessionVerdictMajority(s) ==
    IF Len(s.metrics) = 0 THEN ERROR
    ELSE IF 2 * Cardinality({i \in 1..Len(s.metrics) : s.metrics[i].passed}) >= Len(s.metrics)
         THEN PASS
    ELSE FAIL

(***************************************************************************)
(* SessionResult.verdict                                                   *)
(***************************************************************************)
SessionVerdict(s) ==
    IF Len(s.metrics) = 0 THEN ERROR
    ELSE IF \A i \in 1..Len(s.metrics) : s.metrics[i].passed THEN PASS
    ELSE FAIL

\* Mutant of EvaluationResult.verdict: FAIL is looked for before ERROR.
EvaluationVerdictFailFirst(ss) ==
    IF Len(ss) = 0 THEN ERROR
    ELSE IF \E i \in 1..Len(ss) : SessionVerdict(ss[i]) = FAIL THEN FAIL
    ELSE IF \E i \in 1..Len(ss) : SessionVerdict(ss[i]) = ERROR THEN ERROR
    ELSE PASS

(***************************************************************************)
(* EvaluationResult.verdict                                                *)
(***************************************************************************)
EvaluationVerdict(ss) ==
    IF Len(ss) = 0 THEN ERROR
    ELSE IF \E i \in 1..Len(ss) : SessionVerdict(ss[i]) = ERROR THEN ERROR
    ELSE IF \E i \in 1..Len(ss) : SessionVerdict(ss[i]) = FAIL THEN FAIL
    ELSE PASS

\* Mutant of EvaluationResult.exit_code: ERROR mapped to 1.
ExitCodeOfErrorAsFail(v) == CASE v = PASS -> 0 [] v = FAIL -> 1 [] v = ERROR -> 1

(***************************************************************************)
(* EvaluationResult.exit_code                                              *)
(***************************************************************************)
ExitCodeOf(v) == CASE v = PASS -> 0 [] v = FAIL -> 1 [] v = ERROR -> 2

(***************************************************************************)
(* EvaluationMetadata and EvaluationResult as records.  evaluation_id,     *)
(* timestamp_utc and hostname stand for the identity and environment       *)
(* fields that create_evaluation() fills from uuid4, the clock and the     *)
(* host.                                                                   *)
(***************************************************************************)
\* run_hash = "" before finalize()
NoHash == [unset |-> TRUE]

EvaluationMetadata(eid, ts, host, adapter, category, project) ==
    [evaluation_id |-> eid, run_hash |-> NoHash, timestamp_utc |-> ts,
     duration_seconds |-> 0, hostname |-> host, adapter_type |-> adapter,
     category |-> category, project_name |-> project]

EvaluationResult(metadata, start) ==
    [metadata |-> metadata, sessions |-> <<>>, start_time |-> start,
     finalized |-> FALSE]

verdict(e) == EvaluationVerdict(e.sessions)

exit_code(e) == ExitCodeOf(verdict(e))

(***************************************************************************)
(* EvaluationResult._compute_hash.  hash_content is the dictionary that    *)
(* the code serialises; json.dumps(sort_keys=True) followed by SHA-256 is  *)
(* taken as collision-free, so the hash is represented by the content it   *)
(* is computed from.                                                       *)
(***************************************************************************)
\* Mutant of the hashed metric entry: the value is left out.
HashedMetricNoValue(m) == [name |-> m.name, passed |-> m.passed]

HashedMetric(m) ==
    [name |-> m.name, value |-> Stringify(m.value), passed |-> m.passed]

HashedSession(s) ==
    [session_name |-> s.session_name, verdict |-> SessionVerdict(s),
     metrics |-> [j \in 1..Len(s.metrics) |-> HashedMetric(s.metrics[j])]]

\* Mutant of _compute_hash: the evaluation id is hashed too.
compute_hashWithId(e) ==
    [evaluation_id |-> e.metadata.evaluation_id,
     adapter_type |-> e.metadata.adapter_type,
     category |-> e.metadata.category,
     project_name |-> e.metadata.project_name,
     verdict |-> verdict(e),
     sessions |-> [i \in 1..Len(e.sessions) |-> HashedSession(e.sessions[i])]]

compute_hash(e) ==
    [adapter_type |-> e.metadata.adapter_type,
     category |-> e.metadata.category,
     project_name |-> e.metadata.project_name,
     verdict |-> verdict(e),
     sessions |-> [i \in 1..Len(e.sessions) |-> HashedSession(e.sessions[i])]]

\* Mutant of EvaluationResult.add_session: no check of the finalized flag.
add_sessionUnguarded(e, session) ==
    [ev |-> [e EXCEPT !.sessions = Append(@, session)], raised |-> "none"]

(***************************************************************************)
(* EvaluationResult.add_session: the object after the call and the         *)
(* exception the call raised.                                              *)
(***************************************************************************)
add_session(e, session) ==
    IF e.finalized
    THEN [ev |-> e, raised |-> "RuntimeError"]
    ELSE [ev |-> [e EXCEPT !.sessions = Append(@, session)], raised |-> "none"]

\* Mutant of EvaluationResult.finalize: no early return when finalized.
finalizeAgain(e, t) ==
    LET timed == IF e.start_time # 0
                 THEN [e EXCEPT !.metadata.duration_seconds = t - e.start_time]
                 ELSE e
    IN [timed EXCEPT !.metadata.run_hash = compute_hash(e), !.finalized = TRUE]

(***************************************************************************)
(* EvaluationResult.finalize at time t.                                    *)
(***************************************************************************)
finalize(e, t) ==
    IF e.finalized
    THEN e
    ELSE LET timed == IF e.start_time # 0
                      THEN [e EXCEPT !.metadata.duration_seconds = t - e.start_time]
                      ELSE e
         IN [timed EXCEPT !.metadata.run_hash = compute_hash(e),
                          !.finalized = TRUE]

\* session.metrics.append(m) on the i-th session of the list: the caller
\* keeps the SessionResult object that it handed to add_session.
append_metric(e, i, m) ==
    [e EXCEPT !.sessions[i].metrics = Append(@, m)]

(***************************************************************************)
(* Inputs.                                                                 *)
(***************************************************************************)
RECURSIVE SeqsUpTo(_, _)
SeqsUpTo(S, n) ==
    IF n = 0 THEN {<<>>}
    ELSE LET shorter == SeqsUpTo(S, n - 1)
         IN shorter \cup {Append(q, x) : q \in {r \in shorter : Len(r) = n - 1}, x \in S}

Metrics == {MetricResult(n, IntVal(1), ">0", p, None) : n \in MetricNames, p \in BOOLEAN}

(***************************************************************************)
(* The executors of environments/executor.py.                              *)
(*                                                                         *)
(* Text is a sequence of lines; a line tells what it is and which command  *)
(* of the list it belongs to.  A command is the process it starts: whether *)
(* Popen succeeds, when the process exits (run) and with which code, and   *)
(* when the last holder of its output pipe closes it (eof); a process may  *)
(* never exit and a pipe may never be closed.                              *)
(***************************************************************************)
Line(kind, cmd) == [kind |-> kind, cmd |-> cmd]

NoTimeout == 0

\* ExecutionResult(exit_code, stdout, stderr, duration, command)
ExecutionResult(code, out, err, dur) ==
    [exit_code |-> code, stdout |-> out, stderr |-> err, duration |-> dur]

\* Mutant of ExecutionResult.success: every result counts as a success.
successAlways(r) == TRUE

\* ExecutionResult.success
success(r) == r.exit_code = 0

Behaviours ==
    {b \in [spawn_ok : BOOLEAN, exits : BOOLEAN, run : 1..MaxTime,
            closes : BOOLEAN, eof : 1..MaxTime, code : {0, 3}] :
        /\ b.exits \/ (b.run = 1 /\ b.code = 0)
        /\ b.closes \/ b.eof = 1
        /\ b.spawn_ok \/ (b.exits /\ b.closes /\ b.run = 1 /\ b.eof = 1 /\ b.code = 0)}

Max(a, b) == IF a >= b THEN a ELSE b

\* what one single-command execution gives: whether it returns at all, how
\* (which return statement), the ExecutionResult, whether a process was
\* started, what became of the process, and _output_buffer afterwards
Outcome(returns, how, res, spawned, proc, buffer) ==
    [returns |-> returns, how |-> how, result |-> res, spawned |-> spawned,
     proc |-> proc, buffer |-> buffer]

Blocked(buffer) ==
    Outcome(FALSE, "blocked", ExecutionResult(0, <<>>, <<>>, 0), TRUE, "running", buffer)

\* the except Exception branch: Popen raised
OSErrorOutcome(cmd, buffer) ==
    Outcome(TRUE, "exception",
            ExecutionResult(1, <<>>, <<Line("oserror", cmd)>>, 0),
            FALSE, "none", buffer)

\* subprocess.run(..., capture_output=True, timeout=timeout): communicate()
\* waits for the exit and for both pipes, at most timeout; on expiry the
\* process is killed and TimeoutExpired is raised
RunCaptured(cmd, b, timeout, timeout_stdout, buffer) ==
    IF b.exits /\ b.closes /\ (timeout = NoTimeout \/ Max(b.run, b.eof) <= timeout)
    THEN Outcome(TRUE, "returned",
                 ExecutionResult(b.code, <<Line("stdout", cmd)>>, <<Line("stderr", cmd)>>,
                                 Max(b.run, b.eof)),
                 TRUE, "exited", buffer)
    ELSE IF timeout = NoTimeout
    THEN Blocked(buffer)
    ELSE Outcome(TRUE, "timeout",
                 ExecutionResult(124, timeout_stdout, <<Line("timed_out", cmd)>>, timeout),
                 TRUE, IF b.exits /\ b.run <= timeout THEN "exited" ELSE "killed", buffer)

\* Popen(stdout=PIPE, stderr=STDOUT); every line is read until end of file;
\* then process.wait(timeout=timeout)
RunStreaming(cmd, b, timeout, keeps_lines) ==
    LET lines == <<Line("stdout", cmd), Line("stderr", cmd)>>
        kept == IF keeps_lines THEN lines ELSE <<>>
    IN IF ~b.closes
       THEN Blocked(<<>>)
       ELSE IF b.exits /\ (b.run <= b.eof \/ timeout = NoTimeout \/ b.run - b.eof <= timeout)
       THEN Outcome(TRUE, "returned",
                    ExecutionResult(b.code, lines, <<>>, Max(b.run, b.eof)),
                    TRUE, "exited", lines)
       ELSE IF timeout = NoTimeout
       THEN Blocked(lines)
       ELSE Outcome(TRUE, "timeout",
                    ExecutionResult(124, kept, <<Line("timed_out", cmd)>>, b.eof + timeout),
                    TRUE, "running", lines)

(***************************************************************************)
(* TestExecutor._execute_single, with _execute_streaming and               *)
(* _execute_capture.                                                       *)
(***************************************************************************)
execute_single(cmd, b, dir_exists, timeout, stream, buffer) ==
    IF ~dir_exists
    THEN Outcome(TRUE, "no_dir",
                 ExecutionResult(2, <<>>, <<Line("no_working_dir", cmd)>>, 0),
                 FALSE, "none", buffer)
    ELSE IF stream
    THEN IF ~b.spawn_ok THEN OSErrorOutcome(cmd, <<>>)
         ELSE RunStreaming(cmd, b, timeout, TRUE)
    ELSE IF ~b.spawn_ok THEN OSErrorOutcome(cmd, buffer)
         ELSE RunCaptured(cmd, b, timeout, buffer, buffer)

(***************************************************************************)
(* DockerExecutor._docker_exec.  Popen(cwd=working_dir) raises when the    *)
(* directory is missing; the lines read while streaming are local to the   *)
(* call and _output_buffer is not used.                                    *)
(***************************************************************************)
docker_exec(cmd, b, dir_exists, timeout, stream, buffer) ==
    IF ~dir_exists \/ ~b.spawn_ok
    THEN OSErrorOutcome(cmd, buffer)
    ELSE IF stream
    THEN [RunStreaming(cmd, b, timeout, FALSE) EXCEPT !.buffer = buffer]
    ELSE RunCaptured(cmd, b, timeout, <<>>, buffer)

RECURSIVE Concat(_)
Concat(seqs) == IF seqs = <<>> THEN <<>> ELSE Head(seqs) \o Concat(Tail(seqs))

\* TestExecutor._execute_sequence: what it returns from the results so far
sequence_result(results) ==
    LET n == Len(results)
        outs == [i \in 1..n |-> <<Line("header", i)>> \o results[i].stdout]
        errs == [i \in 1..n |-> IF results[i].stderr # <<>>
                                THEN <<Line("header", i)>> \o results[i].stderr
                                ELSE <<>>]
        total == LET Sum[k \in 0..n] == IF k = 0 THEN 0 ELSE Sum[k - 1] + results[k].duration
                 IN Sum[n]
    IN ExecutionResult(IF n > 0 /\ ~success(results[n]) THEN results[n].exit_code ELSE 0,
                       Concat(outs), Concat(errs), total)

\* DockerExecutor.execute on a list: the aggregate of the results
docker_sequence_result(results) ==
    LET n == Len(results)
        total == LET Sum[k \in 0..n] == IF k = 0 THEN 0 ELSE Sum[k - 1] + results[k].duration
                 IN Sum[n]
    IN ExecutionResult(IF n > 0 THEN results[n].exit_code ELSE 0,
                       Concat([i \in 1..n |-> results[i].stdout]),
                       Concat([i \in 1..n |-> results[i].stderr]),
                       total)

(***************************************************************************)
(* TestResult and TestExecutor.parse_test_results.                         *)
(*                                                                         *)
(* The text of a command's output is a sequence of fragments, the ones the *)
(* regular expressions of parse_test_results tell apart.  A fragment       *)
(* Token(k, txt, up) stands for the text                                   *)
(*   k in CountWords   "<txt> <k>"     ("12 passed"; "12 PASSED" if up)    *)
(*   k = "in"          "in <txt>s"     ("in 4.5s";   "IN 4.5S" if up)      *)
(*   k = "paren"       "(<txt>s)"      ("(5.0s)")                          *)
(*   k = "Tests:"      "Tests:"                                            *)
(*   k = "nl"          a line break                                        *)
(*   k = "word"        any other word  ("ok")                              *)
(* where txt is the sequence of the characters of the number.  Fragments   *)
(* are separated by a space, and by ", " between two counts that follow    *)
(* each other ("12 passed, 3 failed, 1 error in 4.5s").                    *)
(***************************************************************************)
CountWords == {"passed", "failed", "error", "skipped", "total"}

Token(k, txt, up) == [k |-> k, txt |-> txt, up |-> up]

\* int(s) for a match of \d+
DigitVal(c) == CHOOSE d \in 0..9 : Digit(d) = c

RECURSIVE int(_)
int(txt) ==
    IF txt = <<>> THEN 0
    ELSE int(SubSeq(txt, 1, Len(txt) - 1)) * 10 + DigitVal(txt[Len(txt)])

\* float(s) for a match of [\d.]+, in tenths: ValueError for a text with
\* two dots or with no digit
float(txt) ==
    LET dots == {i \in 1..Len(txt) : txt[i] = "."}
        dot == IF dots = {} THEN Len(txt) + 1 ELSE CHOOSE i \in dots : TRUE
    IN IF Cardinality(dots) > 1 \/ Len(txt) - Cardinality(dots) = 0
       THEN [ok |-> FALSE, tenths |-> 0]
       ELSE [ok |-> TRUE,
             tenths |-> int(SubSeq(txt, 1, dot - 1)) * 10
                        + (IF dot < Len(txt) THEN DigitVal(txt[dot + 1]) ELSE 0)]

\* the TestResult dataclass; total is filled by __post_init__
TestResult(passed, failed, errors, skipped, duration, code, parsed_from) ==
    [passed |-> passed, failed |-> failed, errors |-> errors,
     skipped |-> skipped, duration |-> duration,
     total |-> passed + failed + errors + skipped,
     exit_code |-> code, parsed_from |-> parsed_from]

\* Mutant of TestResult.verdict: the counts are looked at before the
\* fallback marker.
TestResultVerdictCountsFirst(r) ==
    IF r.exit_code = 2 THEN ERROR
    ELSE IF r.total = 0 THEN ERROR
    ELSE IF r.failed > 0 \/ r.errors > 0 THEN FAIL
    ELSE IF r.parsed_from = "fallback" /\ r.exit_code # 0 THEN ERROR
    ELSE PASS

\* TestResult.verdict (systemeval.adapters.base)
TestResultVerdict(r) ==
    IF r.exit_code = 2 THEN ERROR
    ELSE IF r.total = 0 THEN ERROR
    ELSE IF r.parsed_from = "fallback" /\ r.exit_code # 0 THEN ERROR
    ELSE IF r.failed > 0 \/ r.errors > 0 THEN FAIL
    ELSE PASS

\* The test command of the CLI once the tests have run: _display_results
\* shows results.verdict and _execute_test_command ends by
\* sys.exit(results.exit_code), whatever the verdict
execute_test_command(results) ==
    [exited |-> TRUE, verdict |-> TestResultVerdict(results),
     status |-> results.exit_code]

\* test(): an exception of the run is reported as an unexpected error, no
\* verdict is shown and the process exits with 2
test(outcome) ==
    IF outcome.raised # "none"
    THEN [exited |-> TRUE, verdict |-> "none", status |-> 2]
    ELSE execute_test_command(outcome.res)

NoMatch == [found |-> FALSE]

MinOf(S) == CHOOSE x \in S : \A y \in S : x <= y

\* "." does not match a line break: a match of ".*?" from fragment i to
\* fragment j stays on one line
SameLine(toks, i, j) == \A m \in (i + 1)..(j - 1) : toks[m].k # "nl"

\* the positions after i of the fragments of kind k on the line of i; the
\* patterns without re.IGNORECASE do not match the upper-case fragments
After(toks, i, k, anycase) ==
    {j \in (i + 1)..Len(toks) :
        /\ toks[j].k = k
        /\ (anycase \/ ~toks[j].up)
        /\ SameLine(toks, i, j)}

\* re.search(r"(\d+) <k>", output): the leftmost match
search_count(toks, k) ==
    LET at == {i \in 1..Len(toks) : toks[i].k = k /\ ~toks[i].up}
    IN IF at = {} THEN NoMatch ELSE [found |-> TRUE, n |-> toks[MinOf(at)].txt]

\* re.search(r"(\d+) passed.*?(\d+) failed.*?(\d+) error.*?in ([\d.]+)s",
\* output, re.IGNORECASE): the leftmost start, each lazy ".*?" reaching the
\* nearest fragment from which the rest of the pattern still matches
search_pytest(toks) ==
    LET Errs(j) == {k \in After(toks, j, "error", TRUE) :
                       After(toks, k, "in", TRUE) # {}}
        Fails(i) == {j \in After(toks, i, "failed", TRUE) :
                       \E k \in Errs(j) : \E l \in After(toks, k, "in", TRUE) :
                           SameLine(toks, i, l)}
        starts == {i \in 1..Len(toks) : toks[i].k = "passed" /\ Fails(i) # {}}
    IN IF starts = {} THEN NoMatch
       ELSE LET i == MinOf(starts)
                j == MinOf(Fails(i))
                k == MinOf({e \in Errs(j) : \E l \in After(toks, e, "in", TRUE) :
                                                SameLine(toks, i, l)})
                l == MinOf(After(toks, k, "in", TRUE))
            IN [found |-> TRUE, passed |-> toks[i].txt, failed |-> toks[j].txt,
                errors |-> toks[k].txt, duration |-> toks[l].txt]

\* re.search(r"in ([\d.]+)s", output)
search_duration(toks) == search_count(toks, "in")

\* re.search(r"Tests:\s*(\d+) passed,\s*(\d+) failed,\s*(\d+) total", output):
\* "\s*" also matches line breaks, "," only the separator of two counts
search_jest(toks) ==
    LET Counts(j) == /\ j + 2 <= Len(toks)
                     /\ toks[j].k = "passed" /\ ~toks[j].up
                     /\ toks[j + 1].k = "failed" /\ ~toks[j + 1].up
                     /\ toks[j + 2].k = "total" /\ ~toks[j + 2].up
        Starts(i) == {j \in (i + 1)..Len(toks) :
                         /\ \A m \in (i + 1)..(j - 1) : toks[m].k = "nl"
                         /\ Counts(j)}
        at == {i \in 1..Len(toks) : toks[i].k = "Tests:" /\ Starts(i) # {}}
    IN IF at = {} THEN NoMatch
       ELSE LET j == MinOf(Starts(MinOf(at)))
            IN [found |-> TRUE, passed |-> toks[j].txt, failed |-> toks[j + 1].txt]

\* re.search(r"(\d+) passed.*?\(([\d.]+)s\)", output)
search_playwright(toks) ==
    LET starts == {i \in 1..Len(toks) :
                      /\ toks[i].k = "passed" /\ ~toks[i].up
                      /\ After(toks, i, "paren", FALSE) # {}}
    IN IF starts = {} THEN NoMatch
       ELSE LET i == MinOf(starts)
            IN [found |-> TRUE, passed |-> toks[i].txt,
                duration |-> toks[MinOf(After(toks, i, "paren", FALSE))].txt]

\* what a call returns or raises
Returns(res) == [raised |-> "none", res |-> res]
Raises(exc) == [raised |-> exc, res |-> [unset |-> TRUE]]

\* TestExecutor.parse_test_results(output, exit_code): the assignments of
\* the method in their order; a float() of a malformed text raises
parse_test_results(toks, code) ==
    LET pytest_match == search_pytest(toks)
        m_passed == search_count(toks, "passed")
        m_failed == search_count(toks, "failed")
        m_errors == search_count(toks, "error")
        m_skipped == search_count(toks, "skipped")
        m_duration == search_duration(toks)
        jest_match == search_jest(toks)
        playwright_match == search_playwright(toks)
        \* the pytest format, else the simpler patterns
        passed1 == IF pytest_match.found THEN int(pytest_match.passed)
                   ELSE IF m_passed.found THEN int(m_passed.n) ELSE 0
        failed1 == IF pytest_match.found THEN int(pytest_match.failed)
                   ELSE IF m_failed.found THEN int(m_failed.n) ELSE 0
        errors1 == IF pytest_match.found THEN int(pytest_match.errors)
                   ELSE IF m_errors.found THEN int(m_errors.n) ELSE 0
        skipped1 == IF pytest_match.found THEN 0
                    ELSE IF m_skipped.found THEN int(m_skipped.n) ELSE 0
        float1 == IF pytest_match.found THEN float(pytest_match.duration)
                  ELSE IF m_duration.found THEN float(m_duration.n)
                  ELSE [ok |-> TRUE, tenths |-> 0]
        \* the Jest format
        passed2 == IF jest_match.found THEN int(jest_match.passed) ELSE passed1
        failed2 == IF jest_match.found THEN int(jest_match.failed) ELSE failed1
        \* the Playwright format
        passed3 == IF playwright_match.found THEN int(playwright_match.passed)
                   ELSE passed2
        float3 == IF playwright_match.found THEN float(playwright_match.duration)
                  ELSE float1
        \* failure patterns in the output
        failed4 == IF m_failed.found THEN int(m_failed.n) ELSE failed2
        \* nothing parsed: the exit code decides
        nothing == passed3 = 0 /\ failed4 = 0 /\ errors1 = 0
        passed5 == IF nothing /\ code = 0 THEN 1 ELSE passed3
        failed5 == IF nothing /\ code # 0 THEN 1 ELSE failed4
    IN IF ~float1.ok \/ ~float3.ok THEN Raises("ValueError")
       ELSE Returns(TestResult(passed5, failed5, errors1, skipped1,
                               float3.tenths, code, None))

(***************************************************************************)
(* TestResult as its callers construct it, the TestResult of               *)
(* systemeval.types, and TestResult.to_evaluation.                         *)
(***************************************************************************)
\* total=None and coverage_percent=None, the defaults of TestResult
NoTotal == -1
NoCoverage == -1

\* TestResult(..., total=total): __post_init__ computes total only when
\* none is given
TestResultOf(passed, failed, errors, skipped, total, code, parsed_from) ==
    LET r == TestResult(passed, failed, errors, skipped, 0, code, parsed_from)
    IN IF total = NoTotal THEN r ELSE [r EXCEPT !.total = total]

\* TestResult.verdict (systemeval.types)
types_TestResultVerdict(r) ==
    IF r.exit_code = 2 THEN ERROR
    ELSE IF r.total = 0 THEN ERROR
    ELSE IF r.parsed_from = "fallback" /\ r.exit_code # 0 THEN ERROR
    ELSE IF r.failed > 0 \/ r.errors > 0 THEN FAIL
    ELSE PASS

\* metric(name, value, expected, condition, message)
metric(name, value, expected, cond, message) ==
    MetricResult(name, value, expected, cond, message)

\* TestResult.to_evaluation(adapter_type, project_name) at time t, of a
\* result whose category the CLI has set to "default"; the same text in
\* both TestResult classes
to_evaluation(r, coverage_percent, t) ==
    LET created == EvaluationResult(
                       EvaluationMetadata("uuid-1", "ts-1", "host-1", "pytest",
                                          "default", None), t)
        core == <<metric("tests_passed", IntVal(r.passed), ">0",
                         r.passed > 0 \/ r.total = 0, "passed"),
                  metric("tests_failed", IntVal(r.failed), "0", r.failed = 0,
                         IF r.failed # 0 THEN "failed" ELSE None),
                  metric("tests_errors", IntVal(r.errors), "0", r.errors = 0,
                         IF r.errors # 0 THEN "errors" ELSE None)>>
        metrics == IF coverage_percent # NoCoverage
                   THEN Append(core, metric("coverage_percent", IntVal(coverage_percent),
                                            ">=0", TRUE, "coverage"))
                   ELSE core
        session == SessionResult("sid", "default", metrics, r.duration, "")
        added == add_session(created, session).ev
    IN finalize([added EXCEPT !.metadata.duration_seconds = r.duration], t)

\* _execute_test_command with --json: results.to_evaluation(...), then
\* evaluation.finalize(), then the JSON is printed
json_output(r, coverage_percent, t) == finalize(to_evaluation(r, coverage_percent, t), t)

NotConverted ==
    EvaluationResult(EvaluationMetadata("uuid-1", "ts-1", "host-1", "pytest", None, None), 0)

ResultIdle ==
    /\ tres = TestResultOf(0, 0, 0, 0, NoTotal, 0, None)
    /\ tverdict = [called |-> FALSE, base |-> ERROR, types |-> ERROR]
    /\ teval = [called |-> FALSE, ev |-> NotConverted]

(***************************************************************************)
(* Environments: DockerComposeEnvironment and BrowserEnvironment.          *)
(*                                                                         *)
(* An environment object is a record: its configuration (kind, skip_build, *)
(* has_server, has_tunnel), the fields of DockerComposeEnvironment         *)
(* (is_up), what its DockerResourceManager holds outside the object        *)
(* (handlers: the process's signal handlers; containers: the containers of *)
(* the compose project) and the processes of the two child environments of *)
(* a BrowserEnvironment (server, tunnel), and timings.health_check in      *)
(* ticks (0.0 in a new object).  A method is an operator from              *)
(* the object and the answers of its collaborators to a MethodResult: the  *)
(* object afterwards, the returned value, the calls made in turn in their  *)
(* order, and for run_tests whether the tests were executed.               *)
(***************************************************************************)
Environment(kind, skip_build, has_server, has_tunnel) ==
    [kind |-> kind, skip_build |-> skip_build,
     has_server |-> has_server, has_tunnel |-> has_tunnel,
     is_up |-> FALSE, handlers |-> "prior", containers |-> "none",
     server |-> "none", tunnel |-> "none", health_check |-> 0]

\* a call on a collaborator: who.op(timeout = ..) or who.op(keep_running =
\* ..), the truth value it returned and the time it took, in ticks (only
\* the waits take time)
Call(who, op, timeout, keep, ret) ==
    [who |-> who, op |-> op, timeout |-> timeout, keep |-> keep, ret |-> ret,
     elapsed |-> 0]

Took(c, elapsed) == [c EXCEPT !.elapsed = elapsed]

\* the time a method has spent in the waits of its collaborators, in ticks
RECURSIVE TimeSpent(_)
TimeSpent(calls) ==
    IF calls = <<>> THEN 0 ELSE Head(calls).elapsed + TimeSpent(Tail(calls))

\* self.timings.health_check = time.time() - start
record_health_check(e, calls) == [e EXCEPT !.health_check = TimeSpent(calls)]

\* Time is counted in ticks, TicksPerSecond of them in a second; timeouts
\* are whole seconds.
\* The waits of the collaborators (StandaloneEnvironment.wait_ready,
\* NgrokEnvironment.wait_ready, DockerResourceManager.wait_healthy) poll at
\* a fixed interval until ready or until the timeout has passed: they return
\* within the timeout plus one poll interval.
PollInterval == 1

\* the time such a wait takes when the collaborator needs `need` ticks to
\* answer
wait_elapsed(timeout, need) ==
    IF need <= timeout * TicksPerSecond + PollInterval THEN need
    ELSE timeout * TicksPerSecond + PollInterval

\* int(x) of a time x >= 0 given in ticks: the whole seconds in it
int_seconds(ticks) == ticks \div TicksPerSecond

MethodResult(e, ret, calls, executed, code, exc) ==
    [env |-> e, ret |-> ret, calls |-> calls, executed |-> executed,
     code |-> code, raised |-> exc]

\* DockerResourceManager (systemeval/plugins/docker_manager.py)
install_signal_handlers(e) == [e EXCEPT !.handlers = "installed"]
restore_signal_handlers(e) == [e EXCEPT !.handlers = "prior"]

\* docker compose up: all the services run, or the command fails, before
\* or after it started some of them
DockerUp == {"ok", "failed", "failed_partway"}

docker_up(e, up) ==
    [e EXCEPT !.containers = IF up = "ok" THEN "all"
                             ELSE IF up = "failed_partway" /\ @ = "none" THEN "some"
                             ELSE @]

docker_down(e) == [e EXCEPT !.containers = "none"]

\* DockerComposeEnvironment.setup
dc_setup(e, build_ok, up) ==
    LET e1 == install_signal_handlers(e)
        installed == <<Call("docker", "install_signal_handlers", 0, FALSE, TRUE)>>
        built == IF e.skip_build THEN installed
                 ELSE Append(installed, Call("docker", "build", 0, FALSE, build_ok))
        e2 == docker_up(e1, up)
        started == Append(built, Call("docker", "up", 0, FALSE, up = "ok"))
    IN IF ~e.skip_build /\ ~build_ok
       THEN MethodResult(e1, FALSE, built, FALSE, 0, "none")
       ELSE IF up # "ok"
       THEN MethodResult(e2, FALSE, started, FALSE, 0, "none")
       ELSE MethodResult([e2 EXCEPT !.is_up = TRUE], TRUE, started, FALSE, 0, "none")

\* DockerComposeEnvironment.wait_ready
dc_wait_ready(e, timeout, healthy, need) ==
    IF ~e.is_up THEN MethodResult(e, FALSE, <<>>, FALSE, 0, "none")
    ELSE LET calls == <<Took(Call("docker", "wait_healthy", timeout, FALSE, healthy),
                             wait_elapsed(timeout, need))>>
         IN MethodResult(record_health_check(e, calls), healthy, calls,
                         FALSE, 0, "none")

\* DockerComposeEnvironment.run_tests: outcome is what executing the test
\* command and parsing its output gives, an exit code or an exception of
\* parse_test_results
dc_run_tests(e, outcome) ==
    IF ~e.is_up THEN MethodResult(e, TRUE, <<>>, FALSE, 2, "none")
    ELSE MethodResult(e, outcome.raised = "none",
                      <<Call("executor", "execute", 0, FALSE, TRUE)>>,
                      TRUE, outcome.code, outcome.raised)

dc_teardownKeepsUp(e, keep_running) ==
    LET down == e.is_up /\ ~keep_running
        e1 == IF down THEN docker_down(e) ELSE e
    IN MethodResult(restore_signal_handlers(e1), TRUE,
                    (IF down THEN <<Call("docker", "down", 0, FALSE, TRUE)>> ELSE <<>>)
                    \o <<Call("docker", "restore_signal_handlers", 0, FALSE, TRUE)>>,
                    FALSE, 0, "none")

dc_teardownAlways(e, keep_running) ==
    LET down == e.is_up
        e1 == IF down THEN [docker_down(e) EXCEPT !.is_up = FALSE] ELSE e
    IN MethodResult(restore_signal_handlers(e1), TRUE,
                    (IF down THEN <<Call("docker", "down", 0, FALSE, TRUE)>> ELSE <<>>)
                    \o <<Call("docker", "restore_signal_handlers", 0, FALSE, TRUE)>>,
                    FALSE, 0, "none")

\* DockerComposeEnvironment.teardown
dc_teardown(e, keep_running) ==
    LET down == e.is_up /\ ~keep_running
        e1 == IF down THEN [docker_down(e) EXCEPT !.is_up = FALSE] ELSE e
    IN MethodResult(restore_signal_handlers(e1), TRUE,
                    (IF down THEN <<Call("docker", "down", 0, FALSE, TRUE)>> ELSE <<>>)
                    \o <<Call("docker", "restore_signal_handlers", 0, FALSE, TRUE)>>,
                    FALSE, 0, "none")

\* the child environments of a BrowserEnvironment (StandaloneEnvironment,
\* NgrokEnvironment): setup() leaves a process running if it succeeds,
\* teardown() stops it unless keep_running
child_setup(proc, ok) == IF ok THEN "running" ELSE proc
child_teardown(proc, keep_running) == IF keep_running THEN proc ELSE "none"

\* Mutant of BrowserEnvironment.setup: the server is left running when the
\* tunnel fails to start.
br_setupNoCleanup(e, server_ok, tunnel_ok) ==
    LET e1 == IF e.has_server
              THEN [e EXCEPT !.server = child_setup(@, server_ok)] ELSE e
        c1 == IF e.has_server
              THEN <<Call("server", "setup", 0, FALSE, server_ok)>> ELSE <<>>
        e2 == IF e.has_tunnel
              THEN [e1 EXCEPT !.tunnel = child_setup(@, tunnel_ok)] ELSE e1
        c2 == IF e.has_tunnel
              THEN Append(c1, Call("tunnel", "setup", 0, FALSE, tunnel_ok)) ELSE c1
    IN IF e.has_server /\ ~server_ok
       THEN MethodResult(e1, FALSE, c1, FALSE, 0, "none")
       ELSE IF e.has_tunnel /\ ~tunnel_ok
       THEN MethodResult(e2, FALSE, c2, FALSE, 0, "none")
       ELSE MethodResult(e2, TRUE, c2, FALSE, 0, "none")

\* BrowserEnvironment.setup
br_setup(e, server_ok, tunnel_ok) ==
    LET e1 == IF e.has_server
              THEN [e EXCEPT !.server = child_setup(@, server_ok)] ELSE e
        c1 == IF e.has_server
              THEN <<Call("server", "setup", 0, FALSE, server_ok)>> ELSE <<>>
        e2 == IF e.has_tunnel
              THEN [e1 EXCEPT !.tunnel = child_setup(@, tunnel_ok)] ELSE e1
        c2 == IF e.has_tunnel
              THEN Append(c1, Call("tunnel", "setup", 0, FALSE, tunnel_ok)) ELSE c1
    IN IF e.has_server /\ ~server_ok
       THEN MethodResult(e1, FALSE, c1, FALSE, 0, "none")
       ELSE IF e.has_tunnel /\ ~tunnel_ok
       THEN IF e.has_server
            THEN MethodResult([e2 EXCEPT !.server = child_teardown(@, FALSE)], FALSE,
                              Append(c2, Call("server", "teardown", 0, FALSE, TRUE)),
                              FALSE, 0, "none")
            ELSE MethodResult(e2, FALSE, c2, FALSE, 0, "none")
       ELSE MethodResult(e2, TRUE, c2, FALSE, 0, "none")

br_wait_readyWholeTimeout(e, timeout, s_ready, s_need, t_ready, t_need) ==
    LET s_elapsed == wait_elapsed(timeout, s_need)
        c1 == IF e.has_server
              THEN <<Took(Call("server", "wait_ready", timeout, FALSE, s_ready),
                          s_elapsed)>>
              ELSE <<>>
        remaining == IF e.has_server THEN timeout * TicksPerSecond - s_elapsed
                     ELSE timeout * TicksPerSecond
        c2 == IF e.has_tunnel /\ remaining > 0
              THEN Append(c1, Took(Call("tunnel", "wait_ready", timeout,
                                        FALSE, t_ready),
                                   wait_elapsed(timeout, t_need)))
              ELSE c1
    IN IF e.has_server /\ ~s_ready
       THEN MethodResult(e, FALSE, c1, FALSE, 0, "none")
       ELSE IF e.has_tunnel /\ remaining > 0 /\ ~t_ready
       THEN MethodResult(e, FALSE, c2, FALSE, 0, "none")
       ELSE MethodResult(record_health_check(e, c2), TRUE, c2, FALSE, 0, "none")

\* BrowserEnvironment.wait_ready: the server is given the whole timeout and
\* answers s_ready when it has needed s_need ticks; the tunnel is asked only
\* if some of the timeout remains, and is given the whole seconds of what
\* remains
br_wait_ready(e, timeout, s_ready, s_need, t_ready, t_need) ==
    LET s_elapsed == wait_elapsed(timeout, s_need)
        c1 == IF e.has_server
              THEN <<Took(Call("server", "wait_ready", timeout, FALSE, s_ready),
                          s_elapsed)>>
              ELSE <<>>
        remaining == IF e.has_server THEN timeout * TicksPerSecond - s_elapsed
                     ELSE timeout * TicksPerSecond
        c2 == IF e.has_tunnel /\ remaining > 0
              THEN Append(c1, Took(Call("tunnel", "wait_ready", int_seconds(remaining),
                                        FALSE, t_ready),
                                   wait_elapsed(int_seconds(remaining), t_need)))
              ELSE c1
    IN IF e.has_server /\ ~s_ready
       THEN MethodResult(e, FALSE, c1, FALSE, 0, "none")
       ELSE IF e.has_tunnel /\ remaining > 0 /\ ~t_ready
       THEN MethodResult(e, FALSE, c2, FALSE, 0, "none")
       ELSE MethodResult(record_health_check(e, c2), TRUE, c2, FALSE, 0, "none")

\* BrowserEnvironment.run_tests, with an adapter configured: valid is the
\* answer of validate_environment(), outcome what adapter.execute() gives
br_run_tests(e, valid, outcome) ==
    IF ~valid
    THEN MethodResult(e, TRUE, <<Call("adapter", "validate_environment", 0, FALSE, FALSE)>>,
                      FALSE, 2, "none")
    ELSE MethodResult(e, outcome.raised = "none",
                      <<Call("adapter", "validate_environment", 0, FALSE, TRUE),
                        Call("adapter", "execute", 0, FALSE, TRUE)>>,
                      TRUE, outcome.code, outcome.raised)

br_teardownServerFirst(e, keep_running) ==
    LET e1 == IF e.has_server
              THEN [e EXCEPT !.server = child_teardown(@, keep_running)] ELSE e
        c1 == IF e.has_server
              THEN <<Call("server", "teardown", 0, keep_running, TRUE)>> ELSE <<>>
        e2 == IF e.has_tunnel
              THEN [e1 EXCEPT !.tunnel = child_teardown(@, keep_running)] ELSE e1
        c2 == IF e.has_tunnel
              THEN Append(c1, Call("tunnel", "teardown", 0, keep_running, TRUE)) ELSE c1
    IN MethodResult(e2, TRUE, c2, FALSE, 0, "none")

\* BrowserEnvironment.teardown
br_teardown(e, keep_running) ==
    LET e1 == IF e.has_tunnel
              THEN [e EXCEPT !.tunnel = child_teardown(@, keep_running)] ELSE e
        c1 == IF e.has_tunnel
              THEN <<Call("tunnel", "teardown", 0, keep_running, TRUE)>> ELSE <<>>
        e2 == IF e.has_server
              THEN [e1 EXCEPT !.server = child_teardown(@, keep_running)] ELSE e1
        c2 == IF e.has_server
              THEN Append(c1, Call("server", "teardown", 0, keep_running, TRUE)) ELSE c1
    IN MethodResult(e2, TRUE, c2, FALSE, 0, "none")

\* the methods of the Environment contract, by the class of the object; a is
\* the record of the collaborators' answers during the call
setup(e, a) ==
    IF e.kind = "docker" THEN dc_setup(e, a.build_ok, a.up)
    ELSE br_setup(e, a.server_ok, a.tunnel_ok)

wait_ready(e, timeout, a) ==
    IF e.kind = "docker" THEN dc_wait_ready(e, timeout, a.healthy, a.d_need)
    ELSE br_wait_ready(e, timeout, a.s_ready, a.s_need, a.t_ready, a.t_need)

run_tests(e, a) ==
    IF e.kind = "docker" THEN dc_run_tests(e, a)
    ELSE br_run_tests(e, a.valid, a)

teardown(e, keep_running) ==
    IF e.kind = "docker" THEN dc_teardown(e, keep_running)
    ELSE br_teardown(e, keep_running)

\* the answers the collaborators can give
SetupAnswers(e) ==
    IF e.kind = "docker"
    THEN [build_ok : IF e.skip_build THEN {TRUE} ELSE BOOLEAN, up : DockerUp,
          server_ok : {TRUE}, tunnel_ok : {TRUE}]
    ELSE [build_ok : {TRUE}, up : {"ok"},
          server_ok : IF e.has_server THEN BOOLEAN ELSE {TRUE},
          tunnel_ok : IF e.has_tunnel THEN BOOLEAN ELSE {TRUE}]

WaitAnswers(e, timeout) ==
    LET WaitTimes == 0..(timeout * TicksPerSecond + PollInterval)
    IN IF e.kind = "docker"
       THEN [healthy : BOOLEAN, d_need : IF e.is_up THEN WaitTimes ELSE {0},
             s_ready : {TRUE}, s_need : {0}, t_ready : {TRUE}, t_need : {0}]
       ELSE {a \in [healthy : {TRUE}, d_need : {0},
                    s_ready : IF e.has_server THEN BOOLEAN ELSE {TRUE},
                    s_need : IF e.has_server THEN WaitTimes ELSE {0},
                    t_ready : IF e.has_tunnel THEN BOOLEAN ELSE {TRUE},
                    t_need : IF e.has_tunnel THEN WaitTimes ELSE {0}] :
                \* the tunnel answers only when it is asked, and within the
                \* timeout it is given
                LET remaining == IF e.has_server
                                 THEN timeout * TicksPerSecond
                                      - wait_elapsed(timeout, a.s_need)
                                 ELSE timeout * TicksPerSecond
                IN IF e.has_tunnel /\ (e.has_server => a.s_ready) /\ remaining > 0
                   THEN a.t_need <= int_seconds(remaining) * TicksPerSecond + PollInterval
                   ELSE a.t_ready /\ a.t_need = 0}

TestAnswers(e) ==
    [valid : IF e.kind = "docker" THEN {TRUE} ELSE BOOLEAN,
     code : {0, 1}, raised : {"none"}]
    \cup [valid : {TRUE}, code : {0}, raised : {"Exception"}]

(***************************************************************************)
(* DockerComposeEnvironment.teardown and the signal handler _cleanup, a    *)
(* statement at a time.  A Python signal handler runs in the main thread   *)
(* between two bytecodes of the code it interrupts, also while that code   *)
(* waits for docker.down() to return, and the interrupted code goes on     *)
(* when the handler returns.  o is the object with the count of the        *)
(* docker down invocations; at is the position in the method.              *)
(***************************************************************************)
DownObject(is_up, keep_running) ==
    [is_up |-> is_up, handlers |-> "installed", downs |-> 0,
     keep_running |-> keep_running]

\* teardown(keep_running): if self._is_up and not keep_running ("check"),
\* self.docker.down() is invoked ("down") and returns ("in_down"),
\* self._is_up = False ("reset"), self.docker.restore_signal_handlers()
\* ("restore")
teardown_step(o, at) ==
    CASE at = "check" -> [o |-> o, at |-> IF o.is_up /\ ~o.keep_running
                                          THEN "down" ELSE "restore"]
      [] at = "down" -> [o |-> [o EXCEPT !.downs = @ + 1], at |-> "in_down"]
      [] at = "in_down" -> [o |-> o, at |-> "reset"]
      [] at = "reset" -> [o |-> [o EXCEPT !.is_up = FALSE], at |-> "restore"]
      [] at = "restore" -> [o |-> [o EXCEPT !.handlers = "prior"], at |-> "done"]

\* _cleanup(): if self._is_up ("check"), self.docker.down() ("down",
\* "in_down"), self._is_up = False ("reset")
cleanup_step(o, at) ==
    CASE at = "check" -> [o |-> o, at |-> IF o.is_up THEN "down" ELSE "return"]
      [] at = "down" -> [o |-> [o EXCEPT !.downs = @ + 1], at |-> "in_down"]
      [] at = "in_down" -> [o |-> o, at |-> "reset"]
      [] at = "reset" -> [o |-> [o EXCEPT !.is_up = FALSE], at |-> "return"]

\* what the handler that DockerResourceManager installs does once the
\* callback has returned: it returns to the interrupted code or it ends
\* the process
AfterCleanup == {"resume", "exit"}

(***************************************************************************)
(* systemeval/e2e/providers/debuggai/provider.py.  The API answers the GET *)
(* of a suite with the suite or with a status >= 400, which _api_request   *)
(* raises as ValueError.  A suite is its status string ("missing": the     *)
(* suite has no "status") and its tests, each with its curRun: none, one   *)
(* that is running, or one that is completed or failed.  A suite with no   *)
(* status and no tests stands for the empty dict.                          *)
(***************************************************************************)
Suite(status_str, tests) == [status |-> status_str, tests |-> tests]

\* status_map.get(status_str.lower(), GenerationStatus.IN_PROGRESS), after
\* suite.get("status", "pending")
status_map(status_str) ==
    CASE status_str \in {"pending", "queued", "missing"} -> "PENDING"
      [] status_str \in {"running", "in_progress"} -> "IN_PROGRESS"
      [] status_str \in {"completed", "Completed"} -> "COMPLETED"
      [] status_str = "failed" -> "FAILED"
      [] status_str = "cancelled" -> "CANCELLED"
      [] OTHER -> "IN_PROGRESS"

\* suite_data of a run before the first answer: None
NoSuite == [unset |-> TRUE]

\* the run that generate_tests() tracks
DebuggAIRun(status, tests_generated, suite_data, completed_at) ==
    [status |-> status, tests_generated |-> tests_generated,
     suite_data |-> suite_data, completed_at |-> completed_at]

\* what the API gives: a suite, or an error
ApiSuite(suite) == [error |-> FALSE, suite |-> suite]
ApiError == [error |-> TRUE, suite |-> Suite("missing", <<>>)]

StatusResult(status, tests_generated, completed_tests) ==
    [status |-> status, tests_generated |-> tests_generated,
     completed_tests |-> completed_tests]

\* DebuggAIProvider.get_status for a tracked run; polled tells whether the
\* API was asked
get_status(r, answer) ==
    IF r.status \in {"COMPLETED", "FAILED"}
    THEN [run |-> r, polled |-> FALSE,
          outcome |-> Returns(StatusResult(r.status, r.tests_generated, 0))]
    ELSE IF answer.error
    THEN [run |-> r, polled |-> TRUE, outcome |-> Raises("ValueError")]
    ELSE LET suite == answer.suite
             status == status_map(suite.status)
             tests_generated == Len(suite.tests)
             completed_tests ==
                 Cardinality({i \in 1..Len(suite.tests) : suite.tests[i] = "completed"})
         IN [run |-> DebuggAIRun(status, tests_generated, suite,
                        r.completed_at \/ status \in {"COMPLETED", "FAILED"}),
             polled |-> TRUE,
             outcome |-> Returns(StatusResult(status, tests_generated, completed_tests))]

\* 'not run.suite_data': None, or the empty dict
NoSuiteData(suite_data) == suite_data = NoSuite \/ suite_data = Suite("missing", <<>>)

\* DebuggAIProvider.download_artifacts for a tracked run: the
\* ArtifactResult with the number of the tests that have a curRun
download_artifacts(r, answer) ==
    IF r.status # "COMPLETED"
    THEN [run |-> r, polled |-> FALSE, outcome |-> Raises("ValueError")]
    ELSE IF NoSuiteData(r.suite_data) /\ answer.error
    THEN [run |-> r, polled |-> TRUE, outcome |-> Raises("ValueError")]
    ELSE LET suite == IF NoSuiteData(r.suite_data) THEN answer.suite ELSE r.suite_data
             total_tests ==
                 Cardinality({i \in 1..Len(suite.tests) : suite.tests[i] # "none"})
         IN [run |-> [r EXCEPT !.suite_data = suite],
             polled |-> NoSuiteData(r.suite_data),
             outcome |-> Returns([total_tests |-> total_tests])]

\* a call of the provider: the method, its run_id, what it gave, whether it
\* asked the API, and the status that get_status() returned last for the
\* tracked run ("none": not yet)
ProviderCall(op, run_id, outcome, polled, returned) ==
    [op |-> op, run_id |-> run_id, outcome |-> outcome, polled |-> polled,
     returned |-> returned]

ProviderIdle ==
    /\ prun = DebuggAIRun("IN_PROGRESS", 0, NoSuite, FALSE)
    /\ pcall = ProviderCall("none", "none", Returns([unset |-> TRUE]), FALSE, "none")

DownIdle ==
    /\ dn = DownObject(FALSE, FALSE)
    /\ tk = [at |-> "idle", handlers |-> <<>>, signals |-> 0]

(***************************************************************************)
(* systemeval/config.py: the environments of a SystemEvalConfig.  The      *)
(* environments are named 1..MaxEnvs; a depends_on list may also name      *)
(* MaxEnvs + 1, which is never defined.  A raw descriptor is the dict of   *)
(* the YAML file: its type, its depends_on list and its default flag.      *)
(***************************************************************************)
EnvNames == 1..MaxEnvs

DepNames == 1..(MaxEnvs + 1)

RawDescriptors ==
    [type : {"standalone"}, depends_on : {<<>>}, default : BOOLEAN]
    \cup [type : {"composite"}, depends_on : SeqsUpTo(DepNames, MaxDeps),
          default : BOOLEAN]

\* StandaloneEnvConfig(**config_dict): a field that the model does not have
\* (depends_on) is ignored
StandaloneEnvConfig(config_dict) ==
    [type |-> "standalone", default |-> config_dict.default]

CompositeEnvConfig(config_dict) ==
    [type |-> "composite", default |-> config_dict.default,
     depends_on |-> config_dict.depends_on]

parse_environment_config(name, config_dict) ==
    IF config_dict.type = "standalone" THEN StandaloneEnvConfig(config_dict)
    ELSE CompositeEnvConfig(config_dict)

\* the field validator of environments: raw dicts to typed configs
validate_environments(v) ==
    [name \in DOMAIN v |-> parse_environment_config(name, v[name])]

\* the model validator, as if it never looked at the dependencies
validate_composite_depsUnchecked(environments) == Returns(environments)

\* the model validator: every dependency of a composite environment is
\* defined
validate_composite_deps(environments) ==
    IF \E name \in DOMAIN environments :
           /\ environments[name].type = "composite"
           /\ \E i \in 1..Len(environments[name].depends_on) :
                  environments[name].depends_on[i] \notin DOMAIN environments
    THEN Raises("ValueError")
    ELSE Returns(environments)

\* SystemEvalConfig(environments=v)
SystemEvalConfig(v) == validate_composite_deps(validate_environments(v))

(***************************************************************************)
(* systemeval/utils/retry.py.  The wrapped function answers each call by   *)
(* returning a value or by raising an exception.  Delays are whole         *)
(* seconds.                                                                *)
(***************************************************************************)
ExcTypes == {"ConnectionError", "OSError", "KeyboardInterrupt"}

\* the classes that an exception of type t is an instance of
Bases(t) ==
    CASE t = "ConnectionError" -> {"ConnectionError", "OSError", "Exception"}
      [] t = "OSError" -> {"OSError", "Exception"}
      [] t = "KeyboardInterrupt" -> {"KeyboardInterrupt"}

\* except config.exceptions
Caught(exceptions, t) == exceptions \cap Bases(t) # {}

RetryConfig(max_attempts, initial_delay, max_delay, exponential_base, exceptions) ==
    [max_attempts |-> max_attempts, initial_delay |-> initial_delay,
     max_delay |-> max_delay, exponential_base |-> exponential_base,
     exceptions |-> exceptions]

RECURSIVE Pow(_, _)
Pow(b, n) == IF n = 0 THEN 1 ELSE b * Pow(b, n - 1)

\* Mutant of calculate_delay: the delay is not capped at max_delay.
calculate_delayUncapped(config, attempt) ==
    config.initial_delay * Pow(config.exponential_base, attempt)

\* RetryConfig.calculate_delay
calculate_delay(config, attempt) ==
    LET delay == config.initial_delay * Pow(config.exponential_base, attempt)
    IN IF delay <= config.max_delay THEN delay ELSE config.max_delay

\* the answers of the wrapped function
FuncReturns(value) == [kind |-> "return", what |-> value]
FuncRaises(type) == [kind |-> "raise", what |-> type]

\* retry_on_condition(condition): the values that condition asks to retry
condition(value) == value = "pending"

\* the events of a trace
CallEvent(answer) == [ev |-> "call", kind |-> answer.kind, what |-> answer.what, delay |-> 0]
SleepEvent(delay) == [ev |-> "sleep", kind |-> "none", what |-> "none", delay |-> delay]

\* the wrapper's loop: the attempt it is about to make, and how the wrapper
\* ended: it returned or raised what the call number `of` of the trace
\* gave (of = 0: something that no call gave)
RetryRun(at, attempt, how, what, of) ==
    [pc |-> at, attempt |-> attempt, how |-> how, what |-> what, of |-> of]

\* one pass of 'for attempt in range(config.max_attempts)' in
\* retry_with_backoff's wrapper and in execute_with_retry, the wrapped
\* function giving answer as the call number n
backoff_attemptRetryAll(config, attempt, answer, n) ==
    IF answer.kind = "return"
    THEN [run |-> RetryRun("done", attempt, "returned", answer.what, n), slept |-> <<>>]
    ELSE IF attempt + 1 >= config.max_attempts
    THEN [run |-> RetryRun("done", attempt, "raised", answer.what, n), slept |-> <<>>]
    ELSE [run |-> RetryRun("loop", attempt + 1, "none", "none", 0),
          slept |-> <<SleepEvent(calculate_delay(config, attempt))>>]

backoff_attempt(config, attempt, answer, n) ==
    IF answer.kind = "return"
    THEN [run |-> RetryRun("done", attempt, "returned", answer.what, n), slept |-> <<>>]
    ELSE IF ~Caught(config.exceptions, answer.what)
    THEN [run |-> RetryRun("done", attempt, "raised", answer.what, n), slept |-> <<>>]
    ELSE IF attempt + 1 >= config.max_attempts
    THEN [run |-> RetryRun("done", attempt, "raised", answer.what, n), slept |-> <<>>]
    ELSE [run |-> RetryRun("loop", attempt + 1, "none", "none", 0),
          slept |-> <<SleepEvent(calculate_delay(config, attempt))>>]

\* after the loop: 'if last_exception: raise last_exception'.  The loop
\* ends only when it made no pass: every last pass returns or raises.
backoff_after_loop(attempt) == RetryRun("done", attempt, "returned", "None", 0)

\* one pass of the loop of retry_on_condition's wrapper
condition_attempt(config, attempt, answer, n) ==
    IF answer.kind = "raise"
    THEN [run |-> RetryRun("done", attempt, "raised", answer.what, n), slept |-> <<>>]
    ELSE IF ~condition(answer.what)
    THEN [run |-> RetryRun("done", attempt, "returned", answer.what, n), slept |-> <<>>]
    ELSE IF attempt + 1 >= config.max_attempts
    THEN [run |-> RetryRun("done", attempt, "returned", answer.what, n), slept |-> <<>>]
    ELSE [run |-> RetryRun("loop", attempt + 1, "none", "none", 0),
          slept |-> <<SleepEvent(calculate_delay(config, attempt))>>]

\* after the loop: 'return result', result never having been assigned
condition_after_loop(attempt) == RetryRun("done", attempt, "raised", "UnboundLocalError", 0)

Wrappers == {"retry_with_backoff", "execute_with_retry", "retry_on_condition"}

(***************************************************************************)
(* systemeval/adapters/browser/surfer_adapter.py.  Times are whole         *)
(* seconds.  The API answers a request with the data of the run, with an   *)
(* HTTPError or URLError, or with something that makes the adapter raise   *)
(* another exception (a body that is not JSON, stats that are not a dict). *)
(***************************************************************************)
SurferStatuses == {"pending", "running", "completed", "failed", "error", "cancelled"}

TerminalStatuses == {"completed", "passed", "success", "failed", "error", "cancelled"}

\* the data of a run: its status, its stats and whether it lists failures
RunData ==
    [status : SurferStatuses, passed : 0..1, failed : 0..1, errors : {0},
     failures : BOOLEAN]

ApiErrors == {"HTTPError", "URLError"}

\* what a request gives: data, or an exception
ApiReturns(data) == [exc |-> "none", data |-> data]
ApiRaises(exc) == [exc |-> exc, data |-> [unset |-> TRUE]]

ApiAnswers ==
    {ApiReturns(data) : data \in RunData}
    \cup {ApiRaises(exc) : exc \in ApiErrors \cup {"ValueError"}}

\* SurferAdapter._parse_run_results
parse_run_results(data) ==
    LET code == IF data.status = "error" THEN 2
                ELSE IF data.failed = 0 /\ data.errors = 0 THEN 0 ELSE 1
    IN TestResult(data.passed, data.failed, data.errors, 0, 0, code, "surfer")

ErrorResult(duration) == TestResult(0, 0, 1, 0, duration, 2, None)

\* a pass of the loop of _poll_for_completion, the request taking took
\* seconds: the result or the exception that ends the loop, or the time
\* that has passed when the loop goes on
poll_once(a, elapsed, answer, took) ==
    LET at == elapsed + took
        ends(r) == [ended |-> TRUE, raised |-> "none", res |-> r, elapsed |-> at]
        sleeps == [ended |-> FALSE, raised |-> "none", res |-> [unset |-> TRUE],
                   elapsed |-> at + a.poll_interval]
    IN IF answer.exc \in ApiErrors THEN sleeps
       ELSE IF answer.exc # "none"
       THEN [ended |-> TRUE, raised |-> answer.exc, res |-> [unset |-> TRUE],
             elapsed |-> at]
       ELSE IF answer.data.status \in {"completed", "passed", "success", "failed", "error"}
       THEN ends(parse_run_results(answer.data))
       ELSE IF answer.data.status = "cancelled"
       THEN ends(TestResult(0, 0, 0, 1, at, 0, None))
       ELSE IF a.failfast /\ answer.data.status = "running" /\ answer.data.failures
       THEN ends(parse_run_results(answer.data))
       ELSE sleeps

\* the timeout result of _poll_for_completion
poll_timeout(timeout) == ErrorResult(timeout)

\* execute(): what _poll_for_completion returned or raised becomes the
\* TestResult of execute(), with its duration; here an exception other
\* than HTTPError and URLError escapes
execute_endUncaught(p) ==
    IF p.raised # "none" THEN Raises(p.raised)
    ELSE Returns([p.res EXCEPT !.duration = p.elapsed])

execute_end(p) ==
    IF p.raised # "none" THEN Returns(ErrorResult(p.elapsed))
    ELSE Returns([p.res EXCEPT !.duration = p.elapsed])

\* _trigger_test_run: the run id, None after an HTTPError or URLError
trigger_test_run(answer) ==
    IF answer.exc \in ApiErrors THEN Returns(None)
    ELSE IF answer.exc # "none" THEN Raises(answer.exc)
    ELSE Returns(answer.id)

SurferRun(at, elapsed, polls, how, outcome) ==
    [pc |-> at, elapsed |-> elapsed, polls |-> polls, how |-> how,
     outcome |-> outcome]

\* the exit codes that execute() hands to parse_test_results: success, a
\* failure, a configuration error, the timeout code
ExitCodes == {0, 1, 2, 124}

\* the process of the test command before it exits
Running == [exited |-> FALSE, verdict |-> "none", status |-> 0]

NotCalled == [called |-> FALSE, code |-> 0, outcome |-> Returns([unset |-> TRUE])]

ParseIdle ==
    /\ output = <<>>
    /\ emitted = [noise |-> 0, block |-> FALSE]
    /\ parsed = NotCalled
    /\ process = Running

NoCall ==
    [op |-> "none", keep |-> FALSE, timeout |-> 0, ret |-> TRUE, calls |-> <<>>,
     executed |-> FALSE, code |-> 0, raised |-> "none"]

NotConstructed == [raised |-> "none", res |-> [unset |-> TRUE], constructed |-> FALSE]

ConfIdle ==
    /\ raw = <<>>
    /\ sysconf = NotConstructed

RetryIdle ==
    /\ rcall = [wrapper |-> "none"]
    /\ rrun = RetryRun("idle", 0, "none", "none", 0)
    /\ rtrace = <<>>

SurferIdle ==
    /\ surfer = [api_key |-> FALSE]
    /\ srun = SurferRun("idle", 0, <<>>, "none", Returns([unset |-> TRUE]))

EnvIdle ==
    /\ env = Environment("docker", FALSE, FALSE, FALSE)
    /\ last = NoCall
    /\ hist = [ready |-> FALSE, torn |-> 0, n |-> 0]
    /\ cli = [mode |-> "api", pc |-> "api", keep_running |-> FALSE]

ExecIdle ==
    /\ pc = "idle"
    /\ call = [kind |-> "local", dir_exists |-> TRUE, is_list |-> FALSE, n |-> 1,
               timeout |-> NoTimeout, stream |-> FALSE, children |-> FALSE]
    /\ log = <<>>
    /\ output_buffer = <<>>
    /\ result = ExecutionResult(0, <<>>, <<>>, 0)

(***************************************************************************)
(* Spec: one EvaluationResult.  It is built by create_evaluation() at time *)
(* 1 (start_time = 1) or directly from its constructor (start_time = 0).   *)
(***************************************************************************)
HashIdle ==
    /\ ha = EvaluationResult(EvaluationMetadata("uuid-a", "ts-a", "host-a", "pytest", None, None), 0)
    /\ hb = EvaluationResult(EvaluationMetadata("uuid-b", "ts-b", "host-b", "pytest", None, None), 0)

EvalIdle ==
    /\ ev = EvaluationResult(EvaluationMetadata("uuid-1", "ts-1", "host-1", "pytest", None, None), 0)
    /\ now = 1
    /\ raised = "none"

Init ==
    /\ \E start \in {0, 1} :
         ev = EvaluationResult(EvaluationMetadata("uuid-1", "ts-1", "host-1", "pytest", None, None), start)
    /\ now = 1
    /\ raised = "none"
    /\ HashIdle
    /\ ExecIdle
    /\ ParseIdle
    /\ EnvIdle
    /\ ConfIdle
    /\ RetryIdle
    /\ SurferIdle
    /\ ResultIdle
    /\ DownIdle
    /\ ProviderIdle

\* the number of metrics in all the sessions of e
TotalMetrics(e) ==
    LET Sum[k \in 0..Len(e.sessions)] ==
            IF k = 0 THEN 0 ELSE Sum[k - 1] + Len(e.sessions[k].metrics)
    IN Sum[Len(e.sessions)]

\* result.add_session(session), the session carrying the metrics it has so far
AddSession ==
    /\ IF ev.finalized THEN TRUE ELSE Len(ev.sessions) < MaxSessions
    /\ \E name \in SessionNames, ms \in SeqsUpTo(Metrics, 1) :
         LET r == add_session(ev, SessionResult("sid", name, ms, 0, ""))
         IN /\ TotalMetrics(ev) + Len(ms) <= MaxMetrics
            /\ ev' = r.ev
            /\ raised' = r.raised
    /\ UNCHANGED <<now, notEval>>

\* session.metrics.append(metric(...)) on a session already added
AppendMetric ==
    /\ \E i \in 1..Len(ev.sessions), m \in Metrics :
         /\ TotalMetrics(ev) < MaxMetrics
         /\ ev' = append_metric(ev, i, m)
    /\ raised' = "none"
    /\ UNCHANGED <<now, notEval>>

\* result.finalize(), called when the clock shows t
Finalize ==
    /\ \E t \in now..MaxClock :
         /\ ev' = finalize(ev, t)
         /\ now' = t
    /\ raised' = "none"
    /\ UNCHANGED notEval

Next == AddSession \/ AppendMetric \/ Finalize

Spec == Init /\ [][Next]_vars

(***************************************************************************)
(* Claims on the verdict cascade and on finalize (Spec).                   *)
(***************************************************************************)
SessionVerdicts(e) == {SessionVerdict(e.sessions[i]) : i \in 1..Len(e.sessions)}

\* C1: EvaluationResult.verdict is ERROR if there is no session or some
\* session's verdict is ERROR, otherwise FAIL if some session's verdict is
\* FAIL, otherwise PASS, whatever the order of the sessions.
C1_EvaluationVerdictCascade ==
    LET vs == SessionVerdicts(ev)
    IN /\ (vs = {} \/ ERROR \in vs) => verdict(ev) = ERROR
       /\ (vs # {} /\ ERROR \notin vs /\ FAIL \in vs) => verdict(ev) = FAIL
       /\ (vs # {} /\ vs \subseteq {PASS}) => verdict(ev) = PASS

\* a FAIL session followed by an ERROR session: the evaluation is ERROR
C1_Witness ==
    /\ Len(ev.sessions) = 2
    /\ SessionVerdict(ev.sessions[1]) = FAIL
    /\ SessionVerdict(ev.sessions[2]) = ERROR
    /\ verdict(ev) = ERROR

NumFailed(s) == Cardinality({j \in 1..Len(s.metrics) : ~s.metrics[j].passed})

\* C2: SessionResult.verdict is ERROR with zero metrics, otherwise FAIL if at
\* least one metric has passed = false, otherwise PASS; one failed metric
\* forces FAIL however many metrics pass.
C2_SessionVerdictCascade ==
    \A i \in 1..Len(ev.sessions) :
        LET s == ev.sessions[i]
        IN /\ Len(s.metrics) = 0 => SessionVerdict(s) = ERROR
           /\ (Len(s.metrics) > 0 /\ NumFailed(s) >= 1) => SessionVerdict(s) = FAIL
           /\ (Len(s.metrics) > 0 /\ NumFailed(s) = 0) => SessionVerdict(s) = PASS

\* a session with one failed metric among passing ones, the failed one first
C2_Witness ==
    \E i \in 1..Len(ev.sessions) :
        LET s == ev.sessions[i]
        IN /\ Len(s.metrics) >= 2
           /\ NumFailed(s) = 1
           /\ ~s.metrics[1].passed
           /\ SessionVerdict(s) = FAIL

\* C3: finalize() is idempotent and run_hash is write-once: the first call
\* stores the content hash and sets the finalized flag; a later call returns
\* without raising and leaves run_hash, the duration and the sessions as
\* they were.
C3_FinalizeIdempotent ==
    [][Finalize =>
        /\ raised' = "none"
        /\ ev'.finalized
        /\ IF ev.finalized
           THEN /\ ev'.metadata.run_hash = ev.metadata.run_hash
                /\ ev'.metadata.duration_seconds = ev.metadata.duration_seconds
                /\ ev'.sessions = ev.sessions
           ELSE /\ ev'.metadata.run_hash = compute_hash(ev)
                /\ ev'.sessions = ev.sessions]_vars

\* a second finalize() has returned, later than the first one (whose time
\* gave the recorded duration), and a metric was appended after the first one
C3_Witness ==
    /\ ev.finalized
    /\ raised = "none"
    /\ ev.start_time # 0
    /\ now - ev.start_time > ev.metadata.duration_seconds
    /\ ev.metadata.run_hash # compute_hash(ev)

\* C4: add_session() after finalize() raises RuntimeError and leaves the
\* sessions and run_hash unchanged; before finalize() it does not raise and
\* appends the session at the end, keeping the earlier sessions in order.
C4_AddSessionAfterFinalizeRaises ==
    [][AddSession =>
        IF ev.finalized
        THEN /\ raised' = "RuntimeError"
             /\ ev'.sessions = ev.sessions
             /\ ev'.metadata.run_hash = ev.metadata.run_hash
        ELSE /\ raised' = "none"
             /\ Len(ev'.sessions) = Len(ev.sessions) + 1
             /\ SubSeq(ev'.sessions, 1, Len(ev.sessions)) = ev.sessions]_vars

\* add_session() has raised on a finalized evaluation that holds a session
C4_Witness ==
    /\ raised = "RuntimeError"
    /\ ev.finalized
    /\ Len(ev.sessions) >= 1

\* C7: exit_code is 0 exactly when the verdict is PASS, 1 exactly when it is
\* FAIL and 2 exactly when it is ERROR, in every reachable state.
C7_ExitCodeOfVerdict ==
    /\ exit_code(ev) = 0 <=> verdict(ev) = PASS
    /\ exit_code(ev) = 1 <=> verdict(ev) = FAIL
    /\ exit_code(ev) = 2 <=> verdict(ev) = ERROR

\* a finalized evaluation whose verdict is FAIL, with exit code 1
C7_Witness ==
    /\ ev.finalized
    /\ verdict(ev) = FAIL
    /\ exit_code(ev) = 1

\* C28: once finalize() has run, the EvaluationResult is immutable in
\* effect: in every state with the finalized flag set, after any later
\* add_session attempt, finalize call or metric append on a session already
\* added, the verdict is the one it had at finalize() and the stored
\* run_hash equals the content hash of the current sessions and metrics.
C28_FinalizedIsImmutable ==
    /\ [](ev.finalized => ev.metadata.run_hash = compute_hash(ev))
    /\ [][ev.finalized => verdict(ev') = verdict(ev)]_vars

(***************************************************************************)
(* SpecHash: two EvaluationResults built side by side.  Every session and  *)
(* metric is added to both with the same session_name, metric name and     *)
(* passed flag; evaluation_id, timestamp, hostname, start time, session    *)
(* ids, durations, captured output, expected values and messages differ    *)
(* between the two throughout, the category is chosen for each, and the    *)
(* value of at most one metric differs.                                    *)
(***************************************************************************)
MetricPositions(e) ==
    UNION {{<<i, j>> : j \in 1..Len(e.sessions[i].metrics)} : i \in 1..Len(e.sessions)}

\* positions <<session, metric>> where the two results carry different values
ValueDiffs(a, b) ==
    {p \in MetricPositions(a) : a.sessions[p[1]].metrics[p[2]].value
                                  # b.sessions[p[1]].metrics[p[2]].value}

HashInit ==
    /\ \E ca \in {None, "unit"}, cb \in {None, "unit"} :
         /\ ha = EvaluationResult(EvaluationMetadata("uuid-a", "ts-a", "host-a", "pytest", ca, "proj"), 1)
         /\ hb = EvaluationResult(EvaluationMetadata("uuid-b", "ts-b", "host-b", "pytest", cb, "proj"), 2)
    /\ EvalIdle
    /\ ExecIdle
    /\ ParseIdle
    /\ EnvIdle
    /\ ConfIdle
    /\ RetryIdle
    /\ SurferIdle
    /\ ResultIdle
    /\ DownIdle
    /\ ProviderIdle

\* add_session on both results, same session_name
HashAddSession ==
    /\ ~ha.finalized /\ ~hb.finalized
    /\ Len(ha.sessions) < MaxHashSessions
    /\ \E name \in SessionNames :
         /\ ha' = add_session(ha, SessionResult("sid-a", name, <<>>, 1, "out-a")).ev
         /\ hb' = add_session(hb, SessionResult("sid-b", name, <<>>, 2, "out-b")).ev
    /\ UNCHANGED notHash

\* a metric appended to the same session of both results, same name and
\* passed flag; the values may differ if no other metric's value does
HashAppendMetric ==
    /\ ~ha.finalized /\ ~hb.finalized
    /\ \E i \in 1..Len(ha.sessions), n \in MetricNames, p \in BOOLEAN,
          va \in MetricValues, vb \in MetricValues :
         /\ Len(ha.sessions[i].metrics) < MaxHashMetrics
         /\ IF va = vb THEN TRUE ELSE ValueDiffs(ha, hb) = {}
         /\ ha' = append_metric(ha, i, MetricResult(n, va, ">0", p, None))
         /\ hb' = append_metric(hb, i, MetricResult(n, vb, ">=1", p, "ok"))
    /\ UNCHANGED notHash

\* finalize() of the first result, at time 3
HashFinalizeA ==
    /\ ~ha.finalized
    /\ ha' = finalize(ha, 3)
    /\ UNCHANGED <<hb, notHash>>

\* finalize() of the second result, at time 5
HashFinalizeB ==
    /\ ~hb.finalized
    /\ hb' = finalize(hb, 5)
    /\ UNCHANGED <<ha, notHash>>

HashNext == HashAddSession \/ HashAppendMetric \/ HashFinalizeA \/ HashFinalizeB

SpecHash == HashInit /\ [][HashNext]_vars

(***************************************************************************)
(* Claims on run_hash (SpecHash).                                          *)
(***************************************************************************)
SameShape(a, b) ==
    /\ Len(a.sessions) = Len(b.sessions)
    /\ \A i \in 1..Len(a.sessions) :
         /\ a.sessions[i].session_name = b.sessions[i].session_name
         /\ Len(a.sessions[i].metrics) = Len(b.sessions[i].metrics)
         /\ \A j \in 1..Len(a.sessions[i].metrics) :
              /\ a.sessions[i].metrics[j].name = b.sessions[i].metrics[j].name
              /\ a.sessions[i].metrics[j].passed = b.sessions[i].metrics[j].passed

SameContext(a, b) ==
    /\ a.metadata.adapter_type = b.metadata.adapter_type
    /\ a.metadata.category = b.metadata.category
    /\ a.metadata.project_name = b.metadata.project_name

BothFinalized == ha.finalized /\ hb.finalized

\* C5: two EvaluationResults with equal adapter_type, category and
\* project_name and equal sequences of sessions (session_name and every
\* metric's name, value and passed flag) have the same run_hash after
\* finalize(), whatever their ids, timestamps, hostname, durations, output,
\* messages and expected values.
C5_SameContentSameHash ==
    (BothFinalized /\ SameContext(ha, hb) /\ SameShape(ha, hb) /\ ValueDiffs(ha, hb) = {})
        => ha.metadata.run_hash = hb.metadata.run_hash

\* both finalized with the same content, a session and a metric in each, and
\* every field outside the hash different
C5_Witness ==
    /\ BothFinalized /\ SameContext(ha, hb) /\ SameShape(ha, hb)
    /\ ValueDiffs(ha, hb) = {}
    /\ Len(ha.sessions) >= 1
    /\ Len(ha.sessions[1].metrics) >= 1
    /\ ha.metadata.evaluation_id # hb.metadata.evaluation_id
    /\ ha.metadata.timestamp_utc # hb.metadata.timestamp_utc
    /\ ha.metadata.hostname # hb.metadata.hostname
    /\ ha.metadata.duration_seconds # hb.metadata.duration_seconds
    /\ ha.sessions[1].session_id # hb.sessions[1].session_id
    /\ ha.sessions[1].stdout # hb.sessions[1].stdout
    /\ ha.sessions[1].metrics[1].expected # hb.sessions[1].metrics[1].expected
    /\ ha.sessions[1].metrics[1].message # hb.sessions[1].metrics[1].message
    /\ ha.metadata.run_hash = hb.metadata.run_hash

DifferOnlyInOneValue ==
    /\ SameContext(ha, hb) /\ SameShape(ha, hb)
    /\ Cardinality(ValueDiffs(ha, hb)) = 1

ValueAt(e, p) == e.sessions[p[1]].metrics[p[2]].value

\* C6 as stated: two results that differ only in the value of one metric
\* never get the same run_hash.
C6_DifferentValueDifferentHash ==
    (BothFinalized /\ DifferOnlyInOneValue)
        => ha.metadata.run_hash # hb.metadata.run_hash

\* C6 amended: two results that differ only in the value of one metric get
\* the same run_hash exactly when the two values have the same string form
\* str(value); a value with a different string form changes the hash.
C6_DifferentStringDifferentHash ==
    (BothFinalized /\ DifferOnlyInOneValue)
        => \A p \in ValueDiffs(ha, hb) :
             (ha.metadata.run_hash = hb.metadata.run_hash)
                <=> (Stringify(ValueAt(ha, p)) = Stringify(ValueAt(hb, p)))

\* both finalized, one metric's value 1 in one result and 2 in the other,
\* and the hashes differ
C6_Witness ==
    /\ BothFinalized /\ DifferOnlyInOneValue
    /\ \E p \in ValueDiffs(ha, hb) :
         Stringify(ValueAt(ha, p)) # Stringify(ValueAt(hb, p))
    /\ ha.metadata.run_hash # hb.metadata.run_hash

(***************************************************************************)
(* SpecExec: one call of execute() on a TestExecutor ("local") or a        *)
(* DockerExecutor ("docker").  The executor may have streamed a command    *)
(* before, so _output_buffer starts empty or with the lines of that        *)
(* command.  The commands of a list are numbered 1..n; what the process of *)
(* a command does is drawn when the command is started.  The commands of a *)
(* call either run their work in child processes of the process that is    *)
(* started (as sh -c does for "sleep 7 & wait") or start none.             *)
(***************************************************************************)
ExecInit ==
    /\ pc = "idle"
    /\ call = [kind |-> "local", dir_exists |-> TRUE, is_list |-> FALSE, n |-> 1,
               timeout |-> NoTimeout, stream |-> FALSE, children |-> FALSE]
    /\ log = <<>>
    /\ output_buffer \in {<<>>, <<Line("earlier", 0)>>}
    /\ result = ExecutionResult(0, <<>>, <<>>, 0)
    /\ EvalIdle
    /\ HashIdle
    /\ ParseIdle
    /\ EnvIdle
    /\ ConfIdle
    /\ RetryIdle
    /\ SurferIdle
    /\ ResultIdle
    /\ DownIdle
    /\ ProviderIdle

\* execute(command, timeout, env, stream) is called
ExecCall ==
    /\ pc = "idle"
    /\ \E kind \in {"local", "docker"}, dir_exists \in BOOLEAN, is_list \in BOOLEAN,
          n \in 0..MaxCommands, timeout \in {NoTimeout} \cup (1..MaxTime - 1),
          stream \in BOOLEAN, children \in BOOLEAN :
         /\ IF is_list THEN TRUE ELSE n = 1
         /\ call' = [kind |-> kind, dir_exists |-> dir_exists, is_list |-> is_list,
                     n |-> n, timeout |-> timeout, stream |-> stream,
                     children |-> children]
    /\ pc' = "running"
    /\ UNCHANGED <<log, output_buffer, result, notExec>>

LastSucceeded == IF log = <<>> THEN TRUE ELSE success(log[Len(log)].result)

SingleOutcome(cmd, b) ==
    IF call.kind = "local"
    THEN execute_single(cmd, b, call.dir_exists, call.timeout, call.stream, output_buffer)
    ELSE docker_exec(cmd, b, call.dir_exists, call.timeout, call.stream, output_buffer)

\* the behaviour recorded for a command whose process was never started
NotStarted ==
    [spawn_ok |-> FALSE, exits |-> TRUE, run |-> 1, closes |-> TRUE, eof |-> 1, code |-> 0]

\* what became of the child processes that a command's process started, if
\* the commands of the call start any (has_children): Popen and
\* subprocess.run start the process in the caller's process group and
\* session, kill() on expiry signals the process alone, and no path signals
\* a process group
Children(has_children, o) == IF o.spawned /\ has_children THEN "running" ELSE "none"

LogEntry(cmd, b, o) ==
    [cmd |-> cmd, beh |-> IF o.spawned THEN b ELSE NotStarted, how |-> o.how,
     result |-> o.result, spawned |-> o.spawned, proc |-> o.proc,
     children |-> Children(call.children, o)]

\* the next command of the list (or the single command) is executed and its
\* execution returns
ExecStep ==
    /\ pc = "running"
    /\ Len(log) < call.n
    /\ LastSucceeded
    /\ \E b \in Behaviours :
         LET cmd == Len(log) + 1
             o == SingleOutcome(cmd, b)
         IN /\ o.returns
            /\ log' = Append(log, LogEntry(cmd, b, o))
            /\ output_buffer' = o.buffer
    /\ UNCHANGED <<pc, call, result, notExec>>

\* the next command is executed and its execution never returns
ExecHang ==
    /\ pc = "running"
    /\ Len(log) < call.n
    /\ LastSucceeded
    /\ \E b \in Behaviours :
         LET cmd == Len(log) + 1
             o == SingleOutcome(cmd, b)
         IN /\ ~o.returns
            /\ log' = Append(log, LogEntry(cmd, b, o))
            /\ output_buffer' = o.buffer
    /\ pc' = "blocked"
    /\ UNCHANGED <<call, result, notExec>>

\* execute() returns: every command ran or the latest one failed
ExecReturn ==
    /\ pc = "running"
    /\ IF Len(log) = call.n THEN TRUE ELSE ~LastSucceeded
    /\ result' = IF ~call.is_list THEN log[1].result
                 ELSE IF call.kind = "local"
                      THEN sequence_result([i \in 1..Len(log) |-> log[i].result])
                      ELSE docker_sequence_result([i \in 1..Len(log) |-> log[i].result])
    /\ pc' = "done"
    /\ UNCHANGED <<call, log, output_buffer, notExec>>

ExecNext == ExecCall \/ ExecStep \/ ExecHang \/ ExecReturn

SpecExec == ExecInit /\ [][ExecNext]_vars

(***************************************************************************)
(* Claims on execute() (SpecExec).                                         *)
(***************************************************************************)
Lines(text) == {text[i] : i \in 1..Len(text)}

Returned == pc = "done"

RunsLongerThanTimeout ==
    /\ log # <<>>
    /\ call.timeout # NoTimeout
    /\ log[Len(log)].spawned
    /\ ~log[Len(log)].beh.exits \/ log[Len(log)].beh.run > call.timeout

\* C9: when a command runs longer than its timeout, execute() returns an
\* ExecutionResult with exit code 124 and a stderr message saying that the
\* command timed out, in buffered mode and in streaming mode.
C9_TimeoutReturns124 ==
    (Returned /\ RunsLongerThanTimeout) =>
        /\ result.exit_code = 124
        /\ \E l \in Lines(result.stderr) : l.kind = "timed_out"

\* C10: if the working directory does not exist, execute() returns exit code
\* 2 with an explanatory stderr message and starts no process: for a single
\* command, for a list (which stops at its first command), for the local
\* and for the container executor.
C10_MissingWorkingDirIsConfigError ==
    (Returned /\ ~call.dir_exists /\ call.n >= 1) =>
        /\ result.exit_code = 2
        /\ \E l \in Lines(result.stderr) : l.kind = "no_working_dir"
        /\ Len(log) = 1
        /\ \A i \in 1..Len(log) : ~log[i].spawned

\* the latest command ended with the timed-out result
TimedOut == log # <<>> /\ log[Len(log)].how = "timeout"

\* C29: whenever execute() returns the timed-out result, the process that
\* the timed-out command started and the children of that process have been
\* terminated: none of them is still running when execute() has returned,
\* in buffered mode and in streaming mode.
C29_TimeoutTerminatesProcessTree ==
    (Returned /\ TimedOut) =>
        /\ log[Len(log)].proc \in {"killed", "exited"}
        /\ log[Len(log)].children # "running"

\* C30: execute() with a finite timeout always returns, and no command of
\* the call keeps it longer than the timeout: neither a process that never
\* exits nor one that never closes its output blocks the call, in streaming
\* mode as in buffered mode.
C30_FiniteTimeoutAlwaysReturns ==
    call.timeout # NoTimeout =>
        /\ pc # "blocked"
        /\ \A i \in 1..Len(log) : log[i].result.duration <= call.timeout

(***************************************************************************)
(* SpecParse: a test command writes its output, a fragment or a whole      *)
(* summary line at a time, and exits; run_tests() hands the output and the *)
(* exit code to parse_test_results.                                        *)
(***************************************************************************)
NoiseTokens ==
    {Token("passed", n, FALSE) : n \in {<<"0">>, <<"2">>}}
    \cup {Token("failed", n, FALSE) : n \in {<<"0">>, <<"7">>}}
    \cup {Token("error", n, FALSE) : n \in {<<"0">>, <<"4">>}}
    \cup {Token("skipped", <<"5">>, FALSE), Token("total", <<"9">>, FALSE)}
    \cup {Token("in", d, FALSE) : d \in {<<"6", ".", "5">>, <<"1", ".", "2", ".", "3">>}}
    \cup {Token("paren", <<"7">>, FALSE), Token("Tests:", <<>>, FALSE),
          Token("nl", <<>>, FALSE), Token("word", <<>>, FALSE)}

\* "12 passed, 3 failed, 1 error in 4.5s", in lower or upper case, and the
\* summary of a run that collected nothing
PytestSummary(p, f, e, d, up) ==
    <<Token("passed", p, up), Token("failed", f, up), Token("error", e, up),
      Token("in", d, up)>>

\* "Tests: 8 passed, 2 failed, 10 total"
JestSummary(p, f, t) ==
    <<Token("Tests:", <<>>, FALSE), Token("passed", p, FALSE),
      Token("failed", f, FALSE), Token("total", t, FALSE)>>

Summaries ==
    {PytestSummary(<<"1", "2">>, <<"3">>, <<"1">>, <<"4", ".", "5">>, up) : up \in BOOLEAN}
    \cup {PytestSummary(<<"0">>, <<"0">>, <<"0">>, <<"4", ".", "5">>, up) : up \in BOOLEAN}
    \cup {JestSummary(<<"8">>, <<"2">>, <<"1", "0">>)}

ParseInit ==
    /\ ParseIdle
    /\ EvalIdle
    /\ HashIdle
    /\ ExecIdle
    /\ EnvIdle
    /\ ConfIdle
    /\ RetryIdle
    /\ SurferIdle
    /\ ResultIdle
    /\ DownIdle
    /\ ProviderIdle

\* the command writes one more fragment
EmitToken ==
    /\ ~parsed.called
    /\ emitted.noise < MaxNoise
    /\ \E t \in NoiseTokens : output' = Append(output, t)
    /\ emitted' = [emitted EXCEPT !.noise = @ + 1]
    /\ UNCHANGED <<parsed, process, notParse>>

\* the command writes the summary of its test framework
EmitSummary ==
    /\ ~parsed.called
    /\ ~emitted.block
    /\ \E b \in Summaries : output' = output \o b
    /\ emitted' = [emitted EXCEPT !.block = TRUE]
    /\ UNCHANGED <<parsed, process, notParse>>

\* the command exits; run_tests() returns
\* executor.parse_test_results(result.stdout, result.exit_code)
Parse ==
    /\ ~parsed.called
    /\ \E code \in ExitCodes :
         parsed' = [called |-> TRUE, code |-> code,
                    outcome |-> parse_test_results(output, code)]
    /\ UNCHANGED <<output, emitted, process, notParse>>

\* the test command shows the results and its process exits
Exit ==
    /\ parsed.called
    /\ ~process.exited
    /\ process' = test(parsed.outcome)
    /\ UNCHANGED <<output, emitted, parsed, notParse>>

ParseNext == EmitToken \/ EmitSummary \/ Parse \/ Exit

SpecParse == ParseInit /\ [][ParseNext]_vars

(***************************************************************************)
(* Claims about parse_test_results (under SpecParse).                      *)
(***************************************************************************)
\* no pattern of parse_test_results finds a count in the text
Unrecognized(toks) ==
    /\ ~search_pytest(toks).found
    /\ \A k \in {"passed", "failed", "error", "skipped"} : ~search_count(toks, k).found
    /\ ~search_jest(toks).found
    /\ ~search_playwright(toks).found

\* C11: on output that matches no count pattern, parse_test_results returns
\* passed = 1 and failed = 0 for exit code 0, failed = 1 and passed = 0 for
\* a non-zero exit code, and in both cases parsed_from = "fallback".
C11_FallbackCountsAndMarker ==
    (parsed.called /\ Unrecognized(output)) =>
        /\ parsed.outcome.raised = "none"
        /\ LET r == parsed.outcome.res
           IN /\ parsed.code = 0 => (r.passed = 1 /\ r.failed = 0)
              /\ parsed.code # 0 => (r.failed = 1 /\ r.passed = 0)
              /\ r.parsed_from = "fallback"

\* C12: when the output has an unrecognized format and the exit code
\* indicates failure, the verdict of the TestResult that run_tests() returns
\* is ERROR, never FAIL and never PASS.
C12_UnrecognizedFailureIsError ==
    (parsed.called /\ Unrecognized(output) /\ parsed.code # 0) =>
        /\ parsed.outcome.raised = "none"
        /\ TestResultVerdict(parsed.outcome.res) = ERROR

\* the places of the text where a summary "P passed, F failed, E error in
\* Ds" stands
SummariesIn(toks) ==
    {i \in 1..(Len(toks) - 3) :
        /\ toks[i].k = "passed" /\ toks[i + 1].k = "failed"
        /\ toks[i + 2].k = "error" /\ toks[i + 3].k = "in"
        /\ \A m \in i..(i + 3) : ~toks[m].up}

\* C13: on any output that contains a summary "P passed, F failed, E error
\* in Ds", parse_test_results returns passed = P, failed = F, errors = E and
\* duration = D, whatever the text before and after the summary.
C13_SummaryParsedRegardlessOfContext ==
    parsed.called =>
        \A i \in SummariesIn(output) :
            /\ parsed.outcome.raised = "none"
            /\ LET r == parsed.outcome.res
               IN /\ r.passed = int(output[i].txt)
                  /\ r.failed = int(output[i + 1].txt)
                  /\ r.errors = int(output[i + 2].txt)
                  /\ float(output[i + 3].txt).ok
                  /\ r.duration = float(output[i + 3].txt).tenths

\* C26: the test command's process exit code corresponds to the reported
\* verdict: 0 exactly when the verdict is PASS, 1 exactly when it is FAIL,
\* 2 exactly when it is ERROR or a configuration problem (no verdict),
\* apart from the reserved timed-out value.
C26_ExitCodeMatchesVerdict ==
    (process.exited /\ parsed.code # 124) =>
        /\ process.status = 0 <=> process.verdict = PASS
        /\ process.status = 1 <=> process.verdict = FAIL
        /\ process.status = 2 <=> process.verdict \in {ERROR, "none"}

\* C31: parse_test_results takes the first pattern that matches, in the
\* order combined summary, individual counters, alternate phrasings (Jest,
\* Playwright): when the combined summary matches, passed, failed, errors
\* and duration are its four numbers; otherwise each of passed, failed,
\* errors and duration that an individual counter matches is that
\* counter's number; no later pattern changes them.  (Counts that are all
\* zero are left aside: what is returned for them is the matter of C32.)
C31_FirstMatchingPatternWins ==
    (parsed.called /\ parsed.outcome.raised = "none") =>
        LET r == parsed.outcome.res
            pytest_match == search_pytest(output)
            m_passed == search_count(output, "passed")
            m_failed == search_count(output, "failed")
            m_errors == search_count(output, "error")
            m_duration == search_duration(output)
            first == IF pytest_match.found
                     THEN [passed |-> int(pytest_match.passed),
                           failed |-> int(pytest_match.failed),
                           errors |-> int(pytest_match.errors),
                           has_duration |-> TRUE,
                           duration |-> float(pytest_match.duration).tenths]
                     ELSE [passed |-> IF m_passed.found THEN int(m_passed.n) ELSE r.passed,
                           failed |-> IF m_failed.found THEN int(m_failed.n) ELSE r.failed,
                           errors |-> IF m_errors.found THEN int(m_errors.n) ELSE r.errors,
                           has_duration |-> m_duration.found,
                           duration |-> IF m_duration.found
                                        THEN float(m_duration.n).tenths ELSE 0]
            matched == pytest_match.found \/ m_passed.found \/ m_failed.found
                       \/ m_errors.found
        IN /\ (matched /\ (first.passed # 0 \/ first.failed # 0 \/ first.errors # 0)) =>
                /\ r.passed = first.passed
                /\ r.failed = first.failed
                /\ r.errors = first.errors
           /\ first.has_duration => r.duration = first.duration

\* the numbers that the text gives for the count k, and 0 for a count that
\* no pattern finds
CountsIn(toks, k) == {0} \cup {int(toks[i].txt) : i \in {j \in 1..Len(toks) : toks[j].k = k}}

\* C32: parse_test_results infers counts from the exit code only when no
\* count is recoverable: whenever some count pattern matches the output,
\* also a summary of zero passed, zero failed and zero errors, the returned
\* counts are numbers parsed from the output, none is put in by inference.
C32_InferenceOnlyWithoutCounts ==
    (parsed.called /\ parsed.outcome.raised = "none" /\ ~Unrecognized(output)) =>
        LET r == parsed.outcome.res
        IN /\ r.passed \in CountsIn(output, "passed")
           /\ r.failed \in CountsIn(output, "failed")
           /\ r.errors \in CountsIn(output, "error")

(***************************************************************************)
(* SpecEnv: one environment object.  Either its caller calls the methods   *)
(* of the Environment contract in any order (mode "api"), or the CLI's     *)
(* _run_with_environment drives it: setup(), wait_ready(), run_tests() and *)
(* the teardown() of its finally block, with or without --keep-running.    *)
(***************************************************************************)
\* the default of wait_ready(timeout), which the CLI uses
DefaultTimeout == MaxWait

EnvInit ==
    /\ \E kind \in {"docker", "browser"}, b1 \in BOOLEAN, b2 \in BOOLEAN :
         env = IF kind = "docker" THEN Environment(kind, b1, FALSE, FALSE)
               ELSE Environment(kind, FALSE, b1, b2)
    /\ last = NoCall
    /\ hist = [ready |-> FALSE, torn |-> 0, n |-> 0]
    /\ cli \in {[mode |-> "api", pc |-> "api", keep_running |-> FALSE]}
               \cup {[mode |-> "cli", pc |-> "setup", keep_running |-> k] : k \in BOOLEAN}
    /\ EvalIdle
    /\ HashIdle
    /\ ExecIdle
    /\ ParseIdle
    /\ ConfIdle
    /\ RetryIdle
    /\ SurferIdle
    /\ ResultIdle
    /\ DownIdle
    /\ ProviderIdle

\* the method op has been called and has given the MethodResult r
Called(op, keep_running, timeout, r) ==
    /\ env' = r.env
    /\ last' = [op |-> op, keep |-> keep_running, timeout |-> timeout, ret |-> r.ret,
                calls |-> r.calls, executed |-> r.executed, code |-> r.code,
                raised |-> r.raised]
    /\ hist' = [ready |-> IF op = "wait_ready" /\ r.ret THEN TRUE ELSE hist.ready,
                torn |-> IF op = "setup" THEN 0
                         ELSE IF op = "teardown" /\ ~keep_running
                         THEN (IF hist.torn = 0 THEN 1 ELSE 2)
                         ELSE hist.torn,
                n |-> hist.n + 1]

ApiCall == cli.mode = "api" /\ hist.n < MaxCalls

ApiSetup ==
    /\ ApiCall
    /\ \E a \in SetupAnswers(env) : Called("setup", FALSE, 0, setup(env, a))
    /\ UNCHANGED <<cli, notEnv>>

ApiWaitReady ==
    /\ ApiCall
    /\ \E timeout \in 0..MaxWait : \E a \in WaitAnswers(env, timeout) :
         Called("wait_ready", FALSE, timeout, wait_ready(env, timeout, a))
    /\ UNCHANGED <<cli, notEnv>>

ApiRunTests ==
    /\ ApiCall
    /\ \E a \in TestAnswers(env) : Called("run_tests", FALSE, 0, run_tests(env, a))
    /\ UNCHANGED <<cli, notEnv>>

ApiTeardown ==
    /\ ApiCall
    /\ \E k \in BOOLEAN : Called("teardown", k, 0, teardown(env, k))
    /\ UNCHANGED <<cli, notEnv>>

\* _run_with_environment: setup_result = env.setup()
CliSetup ==
    /\ cli.pc = "setup"
    /\ \E a \in SetupAnswers(env) :
         LET r == setup(env, a)
         IN /\ Called("setup", FALSE, 0, r)
            /\ cli' = [cli EXCEPT !.pc = IF r.ret THEN "wait_ready" ELSE "finally"]
    /\ UNCHANGED notEnv

\* if not env.wait_ready():
CliWaitReady ==
    /\ cli.pc = "wait_ready"
    /\ \E a \in WaitAnswers(env, DefaultTimeout) :
         LET r == wait_ready(env, DefaultTimeout, a)
         IN /\ Called("wait_ready", FALSE, DefaultTimeout, r)
            /\ cli' = [cli EXCEPT !.pc = IF r.ret THEN "run_tests" ELSE "not_ready"]
    /\ UNCHANGED notEnv

\* env.teardown() of the branch taken when the environment is not ready
CliNotReadyTeardown ==
    /\ cli.pc = "not_ready"
    /\ Called("teardown", FALSE, 0, teardown(env, FALSE))
    /\ cli' = [cli EXCEPT !.pc = "finally"]
    /\ UNCHANGED notEnv

\* results = env.run_tests(...), which returns or raises
CliRunTests ==
    /\ cli.pc = "run_tests"
    /\ \E a \in TestAnswers(env) : Called("run_tests", FALSE, 0, run_tests(env, a))
    /\ cli' = [cli EXCEPT !.pc = "finally"]
    /\ UNCHANGED notEnv

\* finally: env.teardown(keep_running=keep_running) if not keep_running
CliFinally ==
    /\ cli.pc = "finally"
    /\ IF ~cli.keep_running
       THEN Called("teardown", cli.keep_running, 0, teardown(env, cli.keep_running))
       ELSE UNCHANGED <<env, last, hist>>
    /\ cli' = [cli EXCEPT !.pc = "returned"]
    /\ UNCHANGED notEnv

EnvNext ==
    \/ ApiSetup \/ ApiWaitReady \/ ApiRunTests \/ ApiTeardown
    \/ CliSetup \/ CliWaitReady \/ CliNotReadyTeardown \/ CliRunTests \/ CliFinally

SpecEnv == EnvInit /\ [][EnvNext]_vars

(***************************************************************************)
(* Claims about the environments (under SpecEnv).                          *)
(***************************************************************************)
\* the positions of the calls who.op among the calls of a method
CallsOf(calls, who, op) ==
    {i \in 1..Len(calls) : calls[i].who = who /\ calls[i].op = op}

\* a step that is a teardown() call
TeardownStep ==
    ApiTeardown \/ CliNotReadyTeardown \/ (CliFinally /\ ~cli.keep_running)

NothingRunning(e) ==
    e.containers = "none" /\ e.server = "none" /\ e.tunnel = "none"

\* C14: run_tests() executes the test command only if wait_ready() has
\* returned true on that environment before; an earlier call fails fast and
\* executes nothing.
C14_RunTestsOnlyAfterReady ==
    (last.op = "run_tests" /\ ~hist.ready) => ~last.executed

\* C15: teardown() after a failed setup() does not raise and leaves no
\* process or container started by that setup() running, also when starting
\* the containers failed part-way.
C15_TeardownAfterFailedSetup ==
    [][(last.op = "setup" /\ ~last.ret /\ TeardownStep /\ ~last'.keep) =>
          (last'.raised = "none" /\ NothingRunning(env'))]_vars

\* C16: wait_ready() returns true only if every configured component is
\* ready: for BrowserEnvironment the server and the tunnel, if configured,
\* have each reported ready; for DockerComposeEnvironment setup() succeeded
\* and the health check passed.
C16_ReadyMeansEveryComponentReady ==
    (last.op = "wait_ready" /\ last.ret) =>
        IF env.kind = "docker"
        THEN /\ env.is_up
             /\ \E i \in CallsOf(last.calls, "docker", "wait_healthy") : last.calls[i].ret
        ELSE /\ env.has_server =>
                  \E i \in CallsOf(last.calls, "server", "wait_ready") : last.calls[i].ret
             /\ env.has_tunnel =>
                  \E i \in CallsOf(last.calls, "tunnel", "wait_ready") : last.calls[i].ret

\* C17: on every path of the CLI's environment run the signal handlers that
\* DockerComposeEnvironment.setup() installed have been restored to their
\* prior value by the time the run returns.
C17_HandlersRestoredWhenRunReturns ==
    (cli.pc = "returned" /\ env.kind = "docker") => env.handlers = "prior"

\* C18: a teardown() after a completed teardown() does not raise and does
\* not stop or remove anything again: docker down is not invoked a second
\* time.
C18_SecondTeardownDoesNothing ==
    [][(hist.torn >= 1 /\ TeardownStep) =>
          /\ last'.raised = "none"
          /\ CallsOf(last'.calls, "docker", "down") = {}
          /\ env'.containers = env.containers
          /\ env'.server = env.server /\ env'.tunnel = env.tunnel]_vars

\* the CLI has torn a started docker environment down after a failed
\* wait_ready() and again in its finally block
C18_Witness ==
    /\ cli.mode = "cli" /\ cli.pc = "returned"
    /\ env.kind = "docker" /\ env.containers = "none"
    /\ hist.torn = 2
    /\ last.op = "teardown"
    /\ CallsOf(last.calls, "docker", "down") = {}

\* C19: teardown(keep_running=true) does not invoke docker down, leaves the
\* environment up and restores the signal handlers; BrowserEnvironment
\* passes keep_running unchanged to the tunnel and to the server.
C19_KeepRunningTeardown ==
    [][(TeardownStep /\ last'.keep) =>
          IF env.kind = "docker"
          THEN /\ CallsOf(last'.calls, "docker", "down") = {}
               /\ env'.is_up = env.is_up
               /\ env'.containers = env.containers
               /\ CallsOf(last'.calls, "docker", "restore_signal_handlers") # {}
               /\ env'.handlers = "prior"
          ELSE /\ env.has_tunnel => CallsOf(last'.calls, "tunnel", "teardown") # {}
               /\ env.has_server => CallsOf(last'.calls, "server", "teardown") # {}
               /\ \A i \in 1..Len(last'.calls) : last'.calls[i].keep]_vars

\* a docker environment that is up, torn down with keep_running
C19_Witness ==
    /\ last.op = "teardown" /\ last.keep
    /\ env.kind = "docker" /\ env.is_up /\ env.containers = "all"
    /\ env.handlers = "prior"

\* every call who1.op1 of the method comes before every call who2.op2
Precedes(calls, who1, op1, who2, op2) ==
    \A i \in CallsOf(calls, who1, op1) : \A j \in CallsOf(calls, who2, op2) : i < j

\* C20: BrowserEnvironment.setup() starts the server before the tunnel and
\* never starts the tunnel if the server failed to start; wait_ready() waits
\* on the server before the tunnel; teardown() stops the tunnel before the
\* server.
C20_BrowserOrder ==
    env.kind = "browser" =>
        /\ last.op = "setup" =>
             /\ Precedes(last.calls, "server", "setup", "tunnel", "setup")
             /\ (\E i \in CallsOf(last.calls, "server", "setup") : ~last.calls[i].ret)
                   => CallsOf(last.calls, "tunnel", "setup") = {}
        /\ last.op = "wait_ready" =>
             Precedes(last.calls, "server", "wait_ready", "tunnel", "wait_ready")
        /\ last.op = "teardown" =>
             Precedes(last.calls, "tunnel", "teardown", "server", "teardown")

\* a browser environment with a server and a tunnel, started, found ready
\* and torn down: the tunnel is stopped first
C20_Witness ==
    /\ env.kind = "browser" /\ env.has_server /\ env.has_tunnel
    /\ hist.ready
    /\ last.op = "teardown" /\ ~last.keep
    /\ Len(last.calls) = 2
    /\ last.calls[1].who = "tunnel" /\ last.calls[2].who = "server"

\* the tunnel is given at most the budget that the server left
TunnelGivenTheRest ==
    \A i \in CallsOf(last.calls, "tunnel", "wait_ready") :
        last.calls[i].timeout * TicksPerSecond
            <= last.timeout * TicksPerSecond - TimeSpent(SubSeq(last.calls, 1, i - 1))

\* C21 as stated: wait_ready(timeout=T) returns within T plus one poll
\* interval; in BrowserEnvironment the time spent waiting for the server
\* plus the time spent waiting for the tunnel never exceeds T, and the
\* tunnel is given only the budget that the server left.
C21_WaitsNeverExceedTimeout ==
    last.op = "wait_ready" =>
        /\ TimeSpent(last.calls) <= last.timeout * TicksPerSecond + PollInterval
        /\ env.kind = "browser" =>
             /\ TimeSpent(last.calls) <= last.timeout * TicksPerSecond
             /\ TunnelGivenTheRest

\* C21 as amended: wait_ready(timeout=T) returns within T plus one poll
\* interval; in BrowserEnvironment the time spent waiting for the server
\* plus the time spent waiting for the tunnel never exceeds T plus one poll
\* interval, and the tunnel is given only the budget that the server left.
C21_WaitsWithinTimeoutPlusPoll ==
    last.op = "wait_ready" =>
        /\ TimeSpent(last.calls) <= last.timeout * TicksPerSecond + PollInterval
        /\ env.kind = "browser" => TunnelGivenTheRest

\* a browser environment whose server answered within the timeout and whose
\* tunnel then used its whole budget and one poll interval more
C21_Witness ==
    /\ env.kind = "browser" /\ last.op = "wait_ready" /\ last.timeout > 0
    /\ Len(last.calls) = 2
    /\ last.calls[1].elapsed > 0
    /\ last.calls[2].timeout > 0
    /\ last.calls[2].elapsed = last.calls[2].timeout * TicksPerSecond + PollInterval
    /\ TimeSpent(last.calls) = last.timeout * TicksPerSecond + PollInterval

\* a step that is a setup() call
SetupStep == ApiSetup \/ CliSetup

\* the tunnel's setup() was called and failed
TunnelFailed(calls) ==
    \E i \in CallsOf(calls, "tunnel", "setup") : ~calls[i].ret

\* C34: if BrowserEnvironment.setup() has started the server and the tunnel
\* then fails to start, the server is torn down before the failed
\* SetupResult is returned: setup() returns a failure, server.teardown() is
\* called after tunnel.setup(), and neither the server nor a tunnel that
\* setup() started is left running.
C34_FailedTunnelTearsServerDown ==
    [][(SetupStep /\ env.kind = "browser" /\ env.has_server /\ TunnelFailed(last'.calls)) =>
          /\ ~last'.ret
          /\ CallsOf(last'.calls, "server", "teardown") # {}
          /\ Precedes(last'.calls, "tunnel", "setup", "server", "teardown")
          /\ env'.server = "none"
          /\ env.tunnel = "none" => env'.tunnel = "none"]_vars

\* setup() of a browser environment with a server and a tunnel has started
\* the server, the tunnel has failed, and the server has been stopped
C34_Witness ==
    /\ env.kind = "browser" /\ env.has_server /\ env.has_tunnel
    /\ last.op = "setup" /\ ~last.ret
    /\ Len(last.calls) = 3
    /\ last.calls[1].who = "server" /\ last.calls[1].op = "setup" /\ last.calls[1].ret
    /\ last.calls[2].who = "tunnel" /\ last.calls[2].op = "setup" /\ ~last.calls[2].ret
    /\ last.calls[3].who = "server" /\ last.calls[3].op = "teardown"
    /\ env.server = "none"

\* a step that is a wait_ready() call
WaitStep == ApiWaitReady \/ CliWaitReady

\* C36: every wait_ready() call that returns records the time it took in
\* timings.health_check, whether it returns true or false (timeout, server
\* not ready, tunnel not ready, or environment not up).
C36_HealthCheckAlwaysRecorded ==
    [][WaitStep => env'.health_check = TimeSpent(last'.calls)]_vars

(***************************************************************************)
(* SpecConfig: the environments mapping is written, one descriptor at a    *)
(* time, and then handed to SystemEvalConfig.                              *)
(***************************************************************************)
ConfInit ==
    /\ ConfIdle
    /\ EvalIdle
    /\ HashIdle
    /\ ExecIdle
    /\ ParseIdle
    /\ EnvIdle
    /\ RetryIdle
    /\ SurferIdle
    /\ ResultIdle
    /\ DownIdle
    /\ ProviderIdle

\* one more entry of the environments mapping
ConfDeclare ==
    /\ ~sysconf.constructed
    /\ \E name \in EnvNames \ DOMAIN raw : \E config_dict \in RawDescriptors :
         raw' = [n \in DOMAIN raw \cup {name} |->
                   IF n = name THEN config_dict ELSE raw[n]]
    /\ UNCHANGED <<sysconf, notConf>>

\* sysconf = SystemEvalConfig(environments=raw)
ConfConstruct ==
    /\ ~sysconf.constructed
    /\ LET r == SystemEvalConfig(raw)
       IN sysconf' = [raised |-> r.raised, res |-> r.res, constructed |-> TRUE]
    /\ UNCHANGED <<raw, notConf>>

ConfNext == ConfDeclare \/ ConfConstruct

SpecConfig == ConfInit /\ [][ConfNext]_vars

(***************************************************************************)
(* Claims about the configuration (under SpecConfig).                      *)
(***************************************************************************)
Constructed == sysconf.constructed /\ sysconf.raised = "none"

\* the composite environments that the composite environment name depends
\* on, directly
CompositeDeps(environments, name) ==
    {environments[name].depends_on[i] : i \in 1..Len(environments[name].depends_on)}
    \cap {n \in DOMAIN environments : environments[n].type = "composite"}

\* the environments reached from name in at most k steps, k >= 1
RECURSIVE ReachedFrom(_, _, _)
ReachedFrom(environments, name, k) ==
    LET direct == CompositeDeps(environments, name)
    IN IF k = 1 THEN direct
       ELSE direct \cup UNION {ReachedFrom(environments, n, k - 1) : n \in direct}

\* C22: every successfully constructed configuration has an acyclic
\* composite dependency graph: no composite environment depends on itself,
\* directly or through other composite environments.
C22_CompositeGraphAcyclic ==
    Constructed =>
        \A name \in DOMAIN sysconf.res :
            sysconf.res[name].type = "composite" =>
                name \notin ReachedFrom(sysconf.res, name, Cardinality(DOMAIN sysconf.res))

\* a composite environment of raw names a dependency that is not defined
UndefinedDependency ==
    \E name \in DOMAIN raw :
        /\ raw[name].type = "composite"
        /\ \E i \in 1..Len(raw[name].depends_on) :
               raw[name].depends_on[i] \notin DOMAIN raw

\* C23: constructing a SystemEvalConfig in which a composite environment's
\* depends_on names an environment that is not defined raises ValueError;
\* when every named dependency is defined, construction succeeds.
C23_UndefinedDependencyRaises ==
    sysconf.constructed =>
        IF UndefinedDependency THEN sysconf.raised = "ValueError"
        ELSE sysconf.raised = "none" /\ DOMAIN sysconf.res = DOMAIN raw

\* a configuration with a standalone environment and a composite one that
\* names an environment that is not defined: rejected
C23_Witness ==
    /\ sysconf.constructed /\ sysconf.raised = "ValueError"
    /\ \E a \in DOMAIN raw : raw[a].type = "standalone"
    /\ \E a \in DOMAIN raw :
          raw[a].type = "composite" /\ raw[a].depends_on = <<MaxEnvs + 1>>

\* C24: every successfully constructed configuration has at most one
\* environment with default=true.
C24_AtMostOneDefault ==
    Constructed =>
        Cardinality({name \in DOMAIN sysconf.res : sysconf.res[name].default}) <= 1

(***************************************************************************)
(* SpecRetry: one call of a retry wrapper around a function that fails or  *)
(* succeeds as it likes.                                                   *)
(***************************************************************************)
RetryConfigs ==
    {RetryConfig(m, i, x, b, e) :
        m \in -1..MaxAttempts, i \in {1, 2}, x \in {1, 3}, b \in {1, 2},
        e \in {{"Exception"}, {"OSError"}, {"ConnectionError"}}}

RetryInit ==
    /\ rcall \in [wrapper : Wrappers, config : RetryConfigs]
    /\ rrun = RetryRun("loop", 0, "none", "none", 0)
    /\ rtrace = <<>>
    /\ EvalIdle
    /\ HashIdle
    /\ ExecIdle
    /\ ParseIdle
    /\ EnvIdle
    /\ ConfIdle
    /\ SurferIdle
    /\ ResultIdle
    /\ DownIdle
    /\ ProviderIdle

FuncAnswers ==
    {FuncReturns(v) : v \in {"value", "pending"}} \cup {FuncRaises(t) : t \in ExcTypes}

NumCalls == Cardinality({i \in 1..Len(rtrace) : rtrace[i].ev = "call"})

\* one pass of the loop: the wrapped function is called and answers
RetryAttempt ==
    /\ rrun.pc = "loop"
    /\ rrun.attempt < rcall.config.max_attempts
    /\ \E answer \in FuncAnswers :
         LET r == IF rcall.wrapper = "retry_on_condition"
                  THEN condition_attempt(rcall.config, rrun.attempt, answer, NumCalls + 1)
                  ELSE backoff_attempt(rcall.config, rrun.attempt, answer, NumCalls + 1)
         IN /\ rrun' = r.run
            /\ rtrace' = Append(rtrace, CallEvent(answer)) \o r.slept
    /\ UNCHANGED <<rcall, notRetry>>

\* range(config.max_attempts) is exhausted
RetryAfterLoop ==
    /\ rrun.pc = "loop"
    /\ rrun.attempt >= rcall.config.max_attempts
    /\ rrun' = IF rcall.wrapper = "retry_on_condition"
               THEN condition_after_loop(rrun.attempt)
               ELSE backoff_after_loop(rrun.attempt)
    /\ UNCHANGED <<rcall, rtrace, notRetry>>

RetryNext == RetryAttempt \/ RetryAfterLoop

SpecRetry == RetryInit /\ [][RetryNext]_vars

(***************************************************************************)
(* Claims about the retry wrappers (under SpecRetry).                      *)
(***************************************************************************)
\* the calls of the wrapped function, in their order
RECURSIVE CallsIn(_)
CallsIn(trace) ==
    IF trace = <<>> THEN <<>>
    ELSE IF Head(trace).ev = "call" THEN <<Head(trace)>> \o CallsIn(Tail(trace))
    ELSE CallsIn(Tail(trace))

Backoff == rcall.wrapper \in {"retry_with_backoff", "execute_with_retry"}

\* C25: retry_with_backoff and execute_with_retry call the wrapped function
\* at most max_attempts times: they return the first successful result
\* without any further call, retry only exceptions of the configured types
\* (any other exception propagates at once), and after max_attempts failed
\* calls re-raise the last exception.
C25_BoundedAttempts ==
    Backoff =>
        LET calls == CallsIn(rtrace)
            n == Len(calls)
            max_attempts == rcall.config.max_attempts
        IN /\ n <= (IF max_attempts > 0 THEN max_attempts ELSE 0)
           \* only the last call may have returned, or raised an exception
           \* that is not of the configured types
           /\ \A i \in 1..(n - 1) :
                 calls[i].kind = "raise" /\ Caught(rcall.config.exceptions, calls[i].what)
           /\ (n > 0 /\ calls[n].kind = "return") =>
                 (rrun.pc = "done" /\ rrun.how = "returned"
                  /\ rrun.of = n /\ rrun.what = calls[n].what)
           /\ (n > 0 /\ calls[n].kind = "raise"
                 /\ ~Caught(rcall.config.exceptions, calls[n].what)) =>
                 (rrun.pc = "done" /\ rrun.how = "raised"
                  /\ rrun.of = n /\ rrun.what = calls[n].what)
           /\ (n > 0 /\ n = max_attempts /\ calls[n].kind = "raise") =>
                 (rrun.pc = "done" /\ rrun.how = "raised"
                  /\ rrun.of = n /\ rrun.what = calls[n].what)

\* three attempts allowed, OSError retried: a ConnectionError, an OSError
\* and a second ConnectionError, which is raised again
C25_Witness ==
    /\ Backoff /\ rcall.config.max_attempts = 3
    /\ rcall.config.exceptions = {"OSError"}
    /\ Len(CallsIn(rtrace)) = 3
    /\ CallsIn(rtrace)[2].what = "OSError"
    /\ rrun.pc = "done" /\ rrun.how = "raised" /\ rrun.of = 3
    /\ rrun.what = "ConnectionError"

\* the sleeps of the wrapper, in their order
RECURSIVE SleepsIn(_)
SleepsIn(trace) ==
    IF trace = <<>> THEN <<>>
    ELSE IF Head(trace).ev = "sleep" THEN <<Head(trace)>> \o SleepsIn(Tail(trace))
    ELSE SleepsIn(Tail(trace))

\* initial_delay * exponential_base^k, capped at max_delay
BackoffDelay(config, k) ==
    LET RECURSIVE grown(_)
        grown(j) == IF j = 0 THEN config.initial_delay
                    ELSE config.exponential_base * grown(j - 1)
    IN IF grown(k) < config.max_delay THEN grown(k) ELSE config.max_delay

\* C37: between two consecutive attempts the retry wrappers sleep exactly
\* once, for min(initial_delay * exponential_base^k, max_delay) before
\* retry number k (k = 0 for the first retry); they never sleep after the
\* final attempt or after a success, and no delay exceeds max_delay.
C37_OneCappedSleepBetweenAttempts ==
    LET sleeps == SleepsIn(rtrace)
    IN \* calls and sleeps alternate, a call first
       /\ \A i \in 1..Len(rtrace) :
             rtrace[i].ev = (IF i % 2 = 1 THEN "call" ELSE "sleep")
       \* a sleep follows a call that asks for a retry, and when the
       \* wrapper has ended the last event is its last call
       /\ \A i \in 2..Len(rtrace) :
             rtrace[i].ev = "sleep" =>
                IF rcall.wrapper = "retry_on_condition"
                THEN rtrace[i - 1].kind = "return" /\ condition(rtrace[i - 1].what)
                ELSE rtrace[i - 1].kind = "raise"
       /\ (rrun.pc = "done" /\ rtrace # <<>>) => rtrace[Len(rtrace)].ev = "call"
       /\ (rtrace # <<>> /\ Len(CallsIn(rtrace)) = rcall.config.max_attempts) =>
             rtrace[Len(rtrace)].ev = "call"
       /\ \A k \in 0..(Len(sleeps) - 1) :
             /\ sleeps[k + 1].delay = BackoffDelay(rcall.config, k)
             /\ sleeps[k + 1].delay <= rcall.config.max_delay

\* initial_delay 2, base 2, max_delay 3: the wrapper sleeps 2 and then 3
\* seconds between its three attempts, and not after the third
C37_Witness ==
    /\ rcall.config.max_attempts = 3
    /\ rrun.pc = "done"
    /\ Len(rtrace) = 5
    /\ rtrace[2].delay = 2 /\ rtrace[4].delay = 3
    /\ rtrace[5].ev = "call"

\* C38: for every configuration, including max_attempts <= 0, a retry
\* wrapper ends only by returning the value that the wrapped function
\* returned on its last call or by raising an exception that the wrapped
\* function raised; it never returns without having called the function at
\* least once.
C38_EndsWithLastCallsAnswer ==
    rrun.pc = "done" =>
        LET calls == CallsIn(rtrace)
            n == Len(calls)
        IN /\ n >= 1
           /\ rrun.of = n
           /\ calls[n].kind = (IF rrun.how = "returned" THEN "return" ELSE "raise")
           /\ calls[n].what = rrun.what

(***************************************************************************)
(* SpecSurfer: one call of SurferAdapter.execute().  The calling thread is *)
(* scheduled and every request returns (urlopen has a timeout), so a step  *)
(* that can be taken is taken: SpecSurfer is weakly fair.                  *)
(***************************************************************************)
SurferInit ==
    /\ surfer \in [api_key : BOOLEAN, poll_interval : 1..2, failfast : BOOLEAN,
                    timeout : 0..MaxSurferTimeout,
                    surfer_timeout : {0, MaxSurferTimeout}]
    /\ srun = SurferRun("execute", 0, <<>>, "none", Returns([unset |-> TRUE]))
    /\ EvalIdle
    /\ HashIdle
    /\ ExecIdle
    /\ ParseIdle
    /\ EnvIdle
    /\ ConfIdle
    /\ RetryIdle
    /\ ResultIdle
    /\ DownIdle
    /\ ProviderIdle

\* exec_timeout = timeout or self.surfer_timeout
exec_timeout == IF surfer.timeout # 0 THEN surfer.timeout ELSE surfer.surfer_timeout

TriggerAnswers ==
    {[exc |-> "none", id |-> i] : i \in {"", "run"}}
    \cup {[exc |-> e, id |-> ""] : e \in ApiErrors \cup {"ValueError"}}

\* execute() up to the first poll: the API key is tested and the run is
\* triggered
SurferExecute ==
    /\ srun.pc = "execute"
    /\ IF ~surfer.api_key
       THEN srun' = SurferRun("done", 0, <<>>, "no_api_key", Returns(ErrorResult(0)))
       ELSE \E answer \in TriggerAnswers :
              LET run_id == trigger_test_run(answer)
              IN srun' = IF run_id.raised # "none"
                         THEN SurferRun("done", 0, <<>>, "trigger_failed",
                                        execute_end([raised |-> run_id.raised, elapsed |-> 0]))
                         ELSE IF run_id.res \in {None, ""}
                         THEN SurferRun("done", 0, <<>>, "trigger_failed",
                                        Returns(ErrorResult(0)))
                         ELSE SurferRun("poll", 0, <<>>, "none", Returns([unset |-> TRUE]))
    /\ UNCHANGED <<surfer, notSurfer>>

\* a pass of 'while (time.time() - start_time) < timeout'
SurferPoll ==
    /\ srun.pc = "poll"
    /\ srun.elapsed < exec_timeout
    /\ \E answer \in ApiAnswers : \E took \in 0..MaxRequestTime :
         LET p == poll_once(surfer, srun.elapsed, answer, took)
             polls == Append(srun.polls,
                             [at |-> srun.elapsed,
                              what |-> IF answer.exc # "none" THEN answer.exc
                                       ELSE answer.data.status])
         IN srun' = IF p.ended
                    THEN SurferRun("done", p.elapsed, polls, "polled", execute_end(p))
                    ELSE SurferRun("poll", p.elapsed, polls, "none", srun.outcome)
    /\ UNCHANGED <<surfer, notSurfer>>

\* the loop ends: the time is up
SurferTimeout ==
    /\ srun.pc = "poll"
    /\ srun.elapsed >= exec_timeout
    /\ srun' = SurferRun("done", srun.elapsed, srun.polls, "timeout",
                         execute_end([raised |-> "none", res |-> poll_timeout(exec_timeout),
                                      elapsed |-> srun.elapsed]))
    /\ UNCHANGED <<surfer, notSurfer>>

SurferNext == SurferExecute \/ SurferPoll \/ SurferTimeout

SpecSurfer == SurferInit /\ [][SurferNext]_vars /\ WF_vars(SurferNext)

(***************************************************************************)
(* Claims about SurferAdapter (under SpecSurfer).                          *)
(***************************************************************************)
IsErrorResult(outcome) ==
    outcome.raised = "none" /\ outcome.res.errors = 1 /\ outcome.res.exit_code = 2

\* what execute() has returned is a TestResult, and nothing was raised
ReturnsTestResult ==
    srun.pc = "done" =>
        /\ srun.outcome.raised = "none"
        /\ DOMAIN srun.outcome.res = DOMAIN ErrorResult(0)

\* no poll is made after a terminal status or once the timeout is reached
PollLoopEnds ==
    /\ \A i \in 1..Len(srun.polls) :
          /\ srun.polls[i].at < exec_timeout
          /\ i < Len(srun.polls) => srun.polls[i].what \notin TerminalStatuses
    /\ (srun.polls # <<>> /\ srun.polls[Len(srun.polls)].what \in TerminalStatuses)
          => srun.pc = "done"

\* C27: SurferAdapter.execute() always returns a TestResult and never
\* raises: with no API key, when triggering the run fails, and when polling
\* exceeds the timeout (also if every poll fails with an HTTP or network
\* error) it returns errors=1 with exit code 2, and the poll loop ends as
\* soon as a terminal status is seen or the elapsed time reaches the
\* timeout.
C27_ExecuteAlwaysReturnsResult ==
    /\ [](/\ ReturnsTestResult
          /\ srun.how \in {"no_api_key", "trigger_failed", "timeout"}
                => IsErrorResult(srun.outcome)
          /\ PollLoopEnds)
    /\ <>(srun.pc = "done")

\* every poll failed with an HTTP or network error until the time was up
C27_Witness ==
    /\ srun.pc = "done" /\ srun.how = "timeout"
    /\ Len(srun.polls) >= 2
    /\ \A i \in 1..Len(srun.polls) : srun.polls[i].what \in ApiErrors
    /\ IsErrorResult(srun.outcome)

(***************************************************************************)
(* SpecResult: one TestResult, constructed with any counts, with or        *)
(* without an explicit total, any exit code and any provenance marker; its *)
(* verdict is read through each of the two TestResult classes, and the     *)
(* CLI converts it for its JSON output.                                    *)
(***************************************************************************)
TestResults ==
    {TestResultOf(p, f, e, k, total, code, from) :
        p \in 0..MaxCount, f \in 0..MaxCount, e \in 0..MaxCount, k \in 0..MaxCount,
        total \in {NoTotal} \cup (0..MaxCount), code \in {0, 1, 2},
        from \in {None, "pytest", "fallback"}}

ResultInit ==
    /\ tres \in TestResults
    /\ tverdict = [called |-> FALSE, base |-> ERROR, types |-> ERROR]
    /\ teval = [called |-> FALSE, ev |-> NotConverted]
    /\ EvalIdle
    /\ HashIdle
    /\ ExecIdle
    /\ ParseIdle
    /\ EnvIdle
    /\ ConfIdle
    /\ RetryIdle
    /\ SurferIdle
    /\ DownIdle
    /\ ProviderIdle

\* results.verdict is read
ReadVerdict ==
    /\ ~tverdict.called
    /\ tverdict' = [called |-> TRUE, base |-> TestResultVerdict(tres),
                    types |-> types_TestResultVerdict(tres)]
    /\ UNCHANGED <<tres, teval, notResult>>

\* the CLI prints the JSON of the result
ToEvaluation ==
    /\ ~teval.called
    /\ \E coverage_percent \in {NoCoverage, 80} :
         teval' = [called |-> TRUE, ev |-> json_output(tres, coverage_percent, 1)]
    /\ UNCHANGED <<tres, tverdict, notResult>>

ResultNext == ReadVerdict \/ ToEvaluation

SpecResult == ResultInit /\ [][ResultNext]_vars

(***************************************************************************)
(* Claims about TestResult (under SpecResult).                             *)
(***************************************************************************)
\* C33: TestResult.verdict is decided in this order: exit_code = 2 gives
\* ERROR; otherwise total = 0 gives ERROR; otherwise parsed_from =
\* "fallback" with a non-zero exit code gives ERROR; otherwise failed > 0
\* or errors > 0 gives FAIL; otherwise PASS.  The TestResult of
\* systemeval.types and the one of systemeval.adapters.base give the same
\* verdict for every input.
C33_TestResultVerdictCascade ==
    tverdict.called =>
        LET is_error == \/ tres.exit_code = 2
                        \/ tres.total = 0
                        \/ (tres.parsed_from = "fallback" /\ tres.exit_code # 0)
            is_fail == ~is_error /\ (tres.failed > 0 \/ tres.errors > 0)
        IN /\ is_error => tverdict.base = ERROR
           /\ is_fail => tverdict.base = FAIL
           /\ (~is_error /\ ~is_fail) => tverdict.base = PASS
           /\ tverdict.types = tverdict.base

\* the verdict was read of a result with failures that was inferred from a
\* failing exit code: ERROR in both classes
C33_Witness ==
    /\ tverdict.called
    /\ tres.parsed_from = "fallback" /\ tres.exit_code = 1 /\ tres.failed > 0
    /\ tres.total > 0
    /\ tverdict.base = ERROR /\ tverdict.types = ERROR

\* C39: for every TestResult, the EvaluationResult built by to_evaluation()
\* has the same verdict as TestResult.verdict, so that the verdict in the
\* JSON that the CLI prints is the verdict of the TestResult.
C39_EvaluationVerdictMatchesTestResult ==
    teval.called => verdict(teval.ev) = TestResultVerdict(tres)

(***************************************************************************)
(* SpecDown: setup() of a DockerComposeEnvironment has returned, with or   *)
(* without success; teardown() is called once, and termination signals are *)
(* delivered at any point while the handlers are installed, also while a   *)
(* handler is running.                                                     *)
(***************************************************************************)
DownInit ==
    /\ \E is_up \in BOOLEAN, keep_running \in BOOLEAN :
         dn = DownObject(is_up, keep_running)
    /\ tk = [at |-> "idle", handlers |-> <<>>, signals |-> 0]
    /\ EvalIdle
    /\ HashIdle
    /\ ExecIdle
    /\ ParseIdle
    /\ EnvIdle
    /\ ConfIdle
    /\ RetryIdle
    /\ SurferIdle
    /\ ResultIdle
    /\ ProviderIdle

\* teardown(keep_running) is called
TeardownCall ==
    /\ tk.at # "exited"
    /\ tk.at = "idle" /\ tk.handlers = <<>>
    /\ tk' = [tk EXCEPT !.at = "check"]
    /\ UNCHANGED <<dn, notDown>>

\* the next statement of teardown()
TeardownStatement ==
    /\ tk.at \in {"check", "down", "in_down", "reset", "restore"}
    /\ tk.handlers = <<>>
    /\ LET r == teardown_step(dn, tk.at)
       IN /\ dn' = r.o
          /\ tk' = [tk EXCEPT !.at = r.at]
    /\ UNCHANGED notDown

\* SIGINT or SIGTERM is delivered: the handler is entered
Signal ==
    /\ tk.at # "exited"
    /\ dn.handlers = "installed"
    /\ tk.signals < MaxSignals
    /\ tk' = [tk EXCEPT !.handlers = <<"check">> \o @, !.signals = @ + 1]
    /\ UNCHANGED <<dn, notDown>>

\* the next statement of the innermost _cleanup()
CleanupStatement ==
    /\ tk.handlers # <<>>
    /\ Head(tk.handlers) # "return"
    /\ LET r == cleanup_step(dn, Head(tk.handlers))
       IN /\ dn' = r.o
          /\ tk' = [tk EXCEPT !.handlers = <<r.at>> \o Tail(@)]
    /\ UNCHANGED notDown

\* _cleanup() has returned to the handler
CleanupReturn ==
    /\ tk.handlers # <<>>
    /\ Head(tk.handlers) = "return"
    /\ \E then \in AfterCleanup :
         tk' = IF then = "exit"
               THEN [tk EXCEPT !.at = "exited", !.handlers = <<>>]
               ELSE [tk EXCEPT !.handlers = Tail(@)]
    /\ UNCHANGED <<dn, notDown>>

DownNext ==
    TeardownCall \/ TeardownStatement \/ Signal \/ CleanupStatement \/ CleanupReturn

SpecDown == DownInit /\ [][DownNext]_vars

(***************************************************************************)
(* Claims about teardown() and _cleanup (under SpecDown).                  *)
(***************************************************************************)
\* C35: docker down is invoked at most once for each successful setup(),
\* even when a termination signal runs the _cleanup handler at any point
\* during teardown() (between the check of _is_up, the down call and the
\* reset of _is_up).
C35_DownAtMostOnce == dn.downs <= 1

(***************************************************************************)
(* SpecProvider: generate_tests() has tracked the run "run-1"; get_status  *)
(* and download_artifacts are called in any order, for that run or for a   *)
(* run_id that is not tracked, the API answering as it likes.              *)
(***************************************************************************)
ProviderInit ==
    /\ prun = DebuggAIRun("IN_PROGRESS", 0, NoSuite, FALSE)
    /\ pcall = ProviderCall("none", "none", Returns([unset |-> TRUE]), FALSE, "none")
    /\ EvalIdle
    /\ HashIdle
    /\ ExecIdle
    /\ ParseIdle
    /\ EnvIdle
    /\ ConfIdle
    /\ RetryIdle
    /\ SurferIdle
    /\ ResultIdle
    /\ DownIdle

RunIds == {"run-1", "run-2"}

StatusStrings ==
    {"pending", "queued", "running", "in_progress", "completed", "Completed",
     "failed", "cancelled", "paused", "missing"}

SuiteAnswers ==
    {ApiSuite(Suite(st, tests)) :
        st \in StatusStrings, tests \in SeqsUpTo({"none", "running", "completed"}, MaxTests)}
    \cup {ApiError}

\* get_status(run_id)
GetStatus ==
    \E run_id \in RunIds, answer \in SuiteAnswers :
        IF run_id # "run-1"
        THEN /\ pcall' = ProviderCall("get_status", run_id, Raises("KeyError"), FALSE,
                                      pcall.returned)
             /\ UNCHANGED <<prun, notProvider>>
        ELSE LET r == get_status(prun, answer)
             IN /\ prun' = r.run
                /\ pcall' = ProviderCall("get_status", run_id, r.outcome, r.polled,
                                IF r.outcome.raised = "none" THEN r.outcome.res.status
                                ELSE pcall.returned)
                /\ UNCHANGED notProvider

\* download_artifacts(run_id, output_dir)
DownloadArtifacts ==
    \E run_id \in RunIds, answer \in SuiteAnswers :
        IF run_id # "run-1"
        THEN /\ pcall' = ProviderCall("download_artifacts", run_id, Raises("KeyError"),
                                      FALSE, pcall.returned)
             /\ UNCHANGED <<prun, notProvider>>
        ELSE LET r == download_artifacts(prun, answer)
             IN /\ prun' = r.run
                /\ pcall' = ProviderCall("download_artifacts", run_id, r.outcome,
                                         r.polled, pcall.returned)
                /\ UNCHANGED notProvider

ProviderNext == GetStatus \/ DownloadArtifacts

SpecProvider == ProviderInit /\ [][ProviderNext]_vars

(***************************************************************************)
(* Claims about DebuggAIProvider (under SpecProvider).                     *)
(***************************************************************************)
\* C40: a run's terminal status is absorbing: once get_status() has
\* returned COMPLETED, FAILED or CANCELLED for a run, every later
\* get_status() for that run returns the same status, whatever the API
\* answers afterwards; download_artifacts() succeeds only for a run whose
\* status is COMPLETED.
C40_TerminalStatusAbsorbing ==
    [][/\ (/\ pcall.returned \in {"COMPLETED", "FAILED", "CANCELLED"}
           /\ pcall'.op = "get_status" /\ pcall'.run_id = "run-1")
          => (/\ pcall'.outcome.raised = "none"
              /\ pcall'.outcome.res.status = pcall.returned)
       /\ (/\ pcall'.op = "download_artifacts" /\ pcall'.run_id = "run-1"
           /\ pcall'.outcome.raised = "none")
          => prun.status = "COMPLETED"]_vars

====
